---------------------------- MODULE Spec2Model ----------------------------
(***************************************************************************)
(* State-machine model of the admission-and-memoization core of the        *)
(* portfolio chat backend:                                                  *)
(*   - ResponseCache  (backend/app/core/cache.py)                           *)
(*   - CostLimiter    (backend/app/middleware/cost_limiter.py)              *)
(* Time is the wall clock in seconds.  Money is counted in integer units.   *)
(***************************************************************************)
EXTENDS Integers, Sequences, FiniteSets, TLC

(***************************************************************************)
(* Bounds of the model.                                                     *)
(***************************************************************************)
MaxCacheTime == 2      \* the cache clock is advanced up to this second
MaxEvents == 3         \* cap of hits + misses + evictions + expired
MaxHalfHours == 3      \* half-hour clock steps taken within one day
MaxDays == 2           \* day clock steps taken
DaysPerMonth == 2      \* length of a calendar month, in days
MaxWindow == 1         \* record_request is called while a window is shorter
MaxRequests == 3       \* track_usage is called while the ledger counts fewer
MaxHandlers == 2       \* chat handlers of one session in flight at a time
MaxChats == 2          \* chat requests admitted, handler by handler
MaxRecords == 2        \* record_request calls made on top of a backlog
MaxStrides == 4        \* clock steps of one stride taken

(***************************************************************************)
(* Program constants.                                                       *)
(***************************************************************************)
WindowSecs == 3600         \* the trailing window of the session tier
CleanupInterval == 3600    \* CostLimiter.cleanup_interval
DequeMaxLen == 100         \* deque(maxlen=100)
RateLimitSession == 10     \* settings.RATE_LIMIT_SESSION
RateLimitDaily == 100      \* settings.RATE_LIMIT_DAILY
RateLimitMonthly == 2000   \* settings.RATE_LIMIT_MONTHLY
SingletonMaxSize == 1000   \* get_cache(): max_size=1000
CacheTtl == 3600           \* settings.CACHE_TTL

(***************************************************************************)
(* Input domains.                                                           *)
(***************************************************************************)
Namespaces == {"a", "a:b"}
Identifiers == {"c", "b:c"}
Values == {"v1", "v2"}
NoneVal == "None"          \* Python's None
NoTtl == 0                 \* ttl argument None (or 0): `ttl or default_ttl`
TtlArgs == {NoTtl, 1, 3}   \* ttl arguments of set
CacheSizes == {1, 2}       \* max_size arguments of the constructor
DefaultTtls == {1}         \* default_ttl arguments of the constructor
Threads == {"t1", "t2"}     \* threads calling set at the same time
Sessions == {"s1", "s2"}
Portfolios == {"p1", "p2"}
Costs == {2}               \* cost of a request, in integer units
Tokens == {5}
SessionLimits == {1, 2}    \* session_limit as configured
TierLimits == {1}          \* session_limit where the ledger tiers are studied
DailyLimits == {2}         \* daily_limit as configured
MonthlyLimits == {3}       \* monthly_limit as configured
ZeroLimits == {0, 1}       \* limits that admit nothing, or one request
Handlers == {"h1", "h2"}   \* chat requests handled at the same time
Queries == {"q1", "q2"}    \* query strings of chat requests
Generations == {"ok", "no_context", "fail"}  \* outcome of retrieval and generation
\* the storage collaborator of one check_limits call: no client, a working
\* store, or a store that raises in find_one, in aggregate, or in both
DbModes == {"none", "ok", "fail_daily", "fail_monthly", "fail_both"}

VARIABLES
    now,            \* wall clock, seconds (time.time() / datetime.utcnow())
    enabled,        \* ResponseCache.enabled
    max_size,       \* ResponseCache.max_size
    default_ttl,    \* ResponseCache.default_ttl
    cache,          \* ResponseCache._cache: OrderedDict, first = oldest
    stats,          \* ResponseCache._stats
    cret,           \* the last cache call and what it returned
    touched,        \* history: stored keys, least recently touched first
    everSet,        \* history: the (namespace, identifier) pairs passed to set
    dropped,        \* history: keys invalidated or cleared and not set since
    lastSet,        \* history: per key, deadline and value of its last set
    threads,        \* per thread, its position inside a call of set
    session_requests,   \* CostLimiter.session_requests: session -> deque
    session_costs,      \* CostLimiter.session_costs: session -> total cost
    last_cleanup,       \* CostLimiter.last_cleanup
    session_limit,      \* CostLimiter.session_limit
    daily_limit,        \* CostLimiter.daily_limit
    monthly_limit,      \* CostLimiter.monthly_limit
    ledger,             \* the api_usage collection: a sequence of documents
    lret,               \* the last limiter call and what it returned
    verdict,            \* history: per session, how its checks have gone
    checks,             \* history: number of check_limits calls made
    recorded,           \* history: number of record_request calls made
    inflight,           \* per session, chat handlers allowed and not yet recorded
    handlers,           \* per chat handler, its position in the endpoint
    served,             \* history: number of process_message calls returned
    lastSeen            \* history: per session, time of its last call

cacheVars == <<enabled, max_size, default_ttl, cache, stats, cret, touched>>

cacheHist == <<everSet, dropped, lastSet>>

thrVars == <<threads>>

limVars == <<session_requests, session_costs, last_cleanup, session_limit,
             daily_limit, monthly_limit, ledger, lret>>

limHist == <<verdict, checks, recorded, inflight>>

chatVars == <<handlers, served>>

seenHist == <<lastSeen>>

vars == <<now, enabled, max_size, default_ttl, cache, stats, cret, touched,
          everSet, dropped, lastSet, threads, session_requests, session_costs,
          last_cleanup, session_limit, daily_limit, monthly_limit, ledger,
          lret, verdict, checks, recorded, inflight, handlers, served,
          lastSeen>>

(***************************************************************************)
(* ResponseCache._generate_key: sha256(f"{namespace}:{identifier}").        *)
(* The hash is modelled as collision-free: a tag around the raw key.        *)
(***************************************************************************)
RawKey(namespace, identifier) == namespace \o ":" \o identifier

Sha256Hex(raw) == <<"sha256", raw>>

GenerateKey(namespace, identifier) == Sha256Hex(RawKey(namespace, identifier))

AllKeys == {GenerateKey(ns, id) : ns \in Namespaces, id \in Identifiers}

(***************************************************************************)
(* OrderedDict operations on a sequence of entries.                         *)
(***************************************************************************)
KeysOf(c) == {c[i].key : i \in 1..Len(c)}

HasKey(c, k) == k \in KeysOf(c)

EntryOf(c, k) == c[CHOOSE i \in 1..Len(c) : c[i].key = k]

DelKey(c, k) == SelectSeq(c, LAMBDA e : e.key # k)

SetItemKeepsOld(c, k, e) == IF HasKey(c, k) THEN c ELSE Append(c, e)

\* d[k] = e: an existing key keeps its position, a new key goes last
SetItem(c, k, e) ==
    IF HasKey(c, k)
    THEN [i \in 1..Len(c) |-> IF c[i].key = k THEN e ELSE c[i]]
    ELSE Append(c, e)

MoveToEnd(c, k) == Append(DelKey(c, k), EntryOf(c, k))

\* next(iter(d))
FirstKey(c) == c[1].key

(***************************************************************************)
(* CacheEntry: value and expires_at = created_at + ttl.  The bookkeeping    *)
(* fields created_at, hits and last_accessed decide nothing and are left    *)
(* out.                                                                     *)
(***************************************************************************)
NewEntryNoTtl(k, value, ttl, t) == [key |-> k, value |-> value, expires_at |-> t]

\* CacheEntry.__init__
NewEntry(k, value, ttl, t) == [key |-> k, value |-> value, expires_at |-> t + ttl]

IsExpiredAtDeadline(e, t) == t >= e.expires_at

\* CacheEntry.is_expired
IsExpired(e, t) == t > e.expires_at

Call(op, ret) == [op |-> op, ret |-> ret]

\* the statistics counters, capped together
Events(st) == st.hits + st.misses + st.evictions + st.expired

(***************************************************************************)
(* history: order of last touch (set, or successful get) of stored keys     *)
(***************************************************************************)
Touch(h, k) == Append(SelectSeq(h, LAMBDA x : x # k), k)

Forget(h, ks) == SelectSeq(h, LAMBDA x : x \notin ks)

(***************************************************************************)
(* ResponseCache.get                                                        *)
(***************************************************************************)
DisabledIgnored(en) == FALSE

\* if not self.enabled: return
Disabled(en) == ~en

\* what get returns: the value of a stored, unexpired entry
GetResult(c, k, t) ==
    IF HasKey(c, k) /\ ~IsExpired(EntryOf(c, k), t) THEN EntryOf(c, k).value ELSE NoneVal

GetHitStays(c, k) == c

\* self._cache.move_to_end(key) on a hit
GetHit(c, k) == MoveToEnd(c, k)

Get(ns, id) ==
    LET k == GenerateKey(ns, id) IN
    /\ IF Disabled(enabled)
       THEN /\ cret' = Call("get", NoneVal)
            /\ UNCHANGED <<cache, stats, touched>>
       ELSE IF ~HasKey(cache, k)
       THEN /\ Events(stats) < MaxEvents
            /\ stats' = [stats EXCEPT !.misses = @ + 1]
            /\ cret' = Call("get", NoneVal)
            /\ UNCHANGED <<cache, touched>>
       ELSE IF IsExpired(EntryOf(cache, k), now)
       THEN /\ Events(stats) + 2 <= MaxEvents
            /\ stats' = [stats EXCEPT !.expired = @ + 1, !.misses = @ + 1]
            /\ cache' = DelKey(cache, k)
            /\ touched' = Forget(touched, {k})
            /\ cret' = Call("get", NoneVal)
       ELSE /\ Events(stats) < MaxEvents
            /\ cache' = GetHit(cache, k)
            /\ stats' = [stats EXCEPT !.hits = @ + 1]
            /\ touched' = Touch(touched, k)
            /\ cret' = Call("get", GetResult(cache, k, now))
    /\ UNCHANGED <<now, enabled, max_size, default_ttl>>

(***************************************************************************)
(* ResponseCache.set                                                        *)
(***************************************************************************)
\* ttl = ttl or self.default_ttl
EffectiveTtl(ttl, dflt) == IF ttl # 0 THEN ttl ELSE dflt

NeedsEvictionOfStoredKey(c, k, limit) == Len(c) >= limit

NeedsEvictionOverLimit(c, k, limit) == Len(c) > limit /\ ~HasKey(c, k)

\* len(self._cache) >= self.max_size and key not in self._cache
NeedsEviction(c, k, limit) == Len(c) >= limit /\ ~HasKey(c, k)

\* del self._cache[next(iter(self._cache))]
Evict(c) == DelKey(c, FirstKey(c))

\* next(iter(self._cache)) on an empty dict raises StopIteration: the size
\* test passes on an empty cache when max_size is not positive
EvictsNothing(c, k, limit) == NeedsEviction(c, k, limit) /\ c = <<>>

Set(ns, id, value, ttl) ==
    LET k == GenerateKey(ns, id)
        t == EffectiveTtl(ttl, default_ttl)
        evict == NeedsEviction(cache, k, max_size)
        c1 == IF evict THEN Evict(cache) ELSE cache
        c2 == SetItem(c1, k, NewEntry(k, value, t, now))
    IN
    /\ IF Disabled(enabled)
       THEN /\ cret' = Call("set", NoneVal)
            /\ UNCHANGED <<cache, stats, touched>>
       ELSE IF EvictsNothing(cache, k, max_size)
       THEN /\ cret' = Call("set", "raised")
            /\ UNCHANGED <<cache, stats, touched>>
       ELSE /\ evict => Events(stats) < MaxEvents
            /\ cache' = MoveToEnd(c2, k)
            /\ stats' = IF evict THEN [stats EXCEPT !.evictions = @ + 1] ELSE stats
            /\ touched' = Touch(Forget(touched, KeysOf(cache) \ KeysOf(c1)), k)
            /\ cret' = Call("set", NoneVal)
    /\ UNCHANGED <<now, enabled, max_size, default_ttl>>

(***************************************************************************)
(* get and set as functions of the cache state, for callers that make      *)
(* several cache calls in one step.  A cache state is the record           *)
(* [cache, stats, touched]; get adds the value returned as ret.            *)
(***************************************************************************)
CacheState(c, st, h) ==
    [cache |-> c, stats |-> st, touched |-> h, hit |-> FALSE, ret |-> NoneVal]

GetIn(cs, en, k, t) ==
    IF Disabled(en)
    THEN [cs EXCEPT !.ret = NoneVal]
    ELSE IF ~HasKey(cs.cache, k)
    THEN [cs EXCEPT !.stats.misses = @ + 1, !.ret = NoneVal]
    ELSE IF IsExpired(EntryOf(cs.cache, k), t)
    THEN [cs EXCEPT !.stats.expired = @ + 1, !.stats.misses = @ + 1,
                    !.cache = DelKey(@, k), !.touched = Forget(@, {k}),
                    !.ret = NoneVal]
    ELSE [cs EXCEPT !.cache = GetHit(@, k), !.stats.hits = @ + 1,
                    !.touched = Touch(@, k), !.hit = TRUE,
                    !.ret = GetResult(cs.cache, k, t)]

SetIn(cs, en, limit, dflt, k, value, ttl, t) ==
    LET evict == NeedsEviction(cs.cache, k, limit)
        c1 == IF evict THEN Evict(cs.cache) ELSE cs.cache
        c2 == SetItem(c1, k, NewEntry(k, value, EffectiveTtl(ttl, dflt), t))
    IN  IF Disabled(en) \/ EvictsNothing(cs.cache, k, limit)
        THEN cs
        ELSE [cs EXCEPT
                 !.cache = MoveToEnd(c2, k),
                 !.stats.evictions = IF evict THEN @ + 1 ELSE @,
                 !.touched = Touch(Forget(@, KeysOf(cs.cache) \ KeysOf(c1)), k)]

(***************************************************************************)
(* ResponseCache.set called from several threads.  The class holds no      *)
(* lock, so the statements of set interleave between threads; each         *)
(* statement on the OrderedDict is one step.  A thread is idle or stands   *)
(* before one of: the size test, next(iter(self._cache)), del, the insert, *)
(* move_to_end.                                                            *)
(***************************************************************************)
Idle ==
    [pc |-> "idle", key |-> NoneVal, value |-> NoneVal, oldest |-> NoneVal,
     keys |-> <<>>]

Busy == {t \in Threads : threads[t].pc # "idle"}

\* the threads inside set
Setting ==
    {t \in Threads : threads[t].pc \in {"test", "pick", "del", "insert", "move"}}

At(t, pc) == threads[t].pc = pc

Goto(t, pc) == threads' = [threads EXCEPT ![t].pc = pc]

\* an exception leaves set
Raise(t) ==
    /\ threads' = [threads EXCEPT ![t] = Idle]
    /\ cret' = Call("set", "raised")

ThreadFrame == UNCHANGED <<now, enabled, max_size, default_ttl>>

\* set(namespace, identifier, value) is entered with a key that is not
\* stored and that no other thread is setting
ThreadCall(t, ns, id, value) ==
    /\ At(t, "idle")
    /\ enabled
    /\ ~HasKey(cache, GenerateKey(ns, id))
    /\ \A u \in Setting : threads[u].key # GenerateKey(ns, id)
    /\ Events(stats) + Cardinality(Busy) < MaxEvents
    /\ threads' = [threads EXCEPT ![t] =
                       [pc |-> "test", key |-> GenerateKey(ns, id),
                        value |-> value, oldest |-> NoneVal,
                        keys |-> <<>>]]
    /\ UNCHANGED <<cache, stats, cret, touched>>
    /\ ThreadFrame

\* if len(self._cache) >= self.max_size and key not in self._cache
ThreadTest(t) ==
    /\ At(t, "test")
    /\ Goto(t, IF NeedsEviction(cache, threads[t].key, max_size)
               THEN "pick" ELSE "insert")
    /\ UNCHANGED <<cache, stats, cret, touched>>
    /\ ThreadFrame

\* oldest_key = next(iter(self._cache)); StopIteration on an empty dict
ThreadPick(t) ==
    /\ At(t, "pick")
    /\ IF cache = <<>>
       THEN Raise(t)
       ELSE /\ threads' = [threads EXCEPT ![t].pc = "del",
                                          ![t].oldest = FirstKey(cache)]
            /\ UNCHANGED cret
    /\ UNCHANGED <<cache, stats, touched>>
    /\ ThreadFrame

\* del self._cache[oldest_key]; self._stats["evictions"] += 1
ThreadDel(t) ==
    /\ At(t, "del")
    /\ IF ~HasKey(cache, threads[t].oldest)
       THEN /\ Raise(t)
            /\ UNCHANGED <<cache, stats, touched>>
       ELSE /\ cache' = DelKey(cache, threads[t].oldest)
            /\ stats' = [stats EXCEPT !.evictions = @ + 1]
            /\ touched' = Forget(touched, {threads[t].oldest})
            /\ Goto(t, "insert")
            /\ UNCHANGED cret
    /\ ThreadFrame

\* self._cache[key] = CacheEntry(value, ttl)
ThreadInsert(t) ==
    /\ At(t, "insert")
    /\ cache' = SetItem(cache, threads[t].key,
                        NewEntry(threads[t].key, threads[t].value,
                                 EffectiveTtl(NoTtl, default_ttl), now))
    /\ touched' = Touch(touched, threads[t].key)
    /\ Goto(t, "move")
    /\ UNCHANGED <<stats, cret>>
    /\ ThreadFrame

\* self._cache.move_to_end(key); KeyError when the key is gone
ThreadMove(t) ==
    /\ At(t, "move")
    /\ IF ~HasKey(cache, threads[t].key)
       THEN /\ Raise(t)
            /\ UNCHANGED <<cache, touched>>
       ELSE /\ cache' = MoveToEnd(cache, threads[t].key)
            /\ touched' = Touch(touched, threads[t].key)
            /\ threads' = [threads EXCEPT ![t] = Idle]
            /\ cret' = Call("set", NoneVal)
    /\ UNCHANGED stats
    /\ ThreadFrame

(***************************************************************************)
(* ResponseCache.get and cleanup_expired called from threads, statement by *)
(* statement.  get stands before the membership test, the lookup           *)
(* self._cache[key], the del of an expired entry, or move_to_end;          *)
(* cleanup_expired stands in its scan or before its deletions.             *)
(***************************************************************************)
\* an exception leaves the method op
RaiseFrom(t, op) ==
    /\ threads' = [threads EXCEPT ![t] = Idle]
    /\ cret' = Call("raise", op)

\* the method returns
Return(t, op, ret) ==
    /\ threads' = [threads EXCEPT ![t] = Idle]
    /\ cret' = Call(op, ret)

ThreadGetCall(t, ns, id) ==
    /\ At(t, "idle")
    /\ enabled
    /\ Events(stats) + 2 * (Cardinality(Busy) + 1) <= MaxEvents + 1
    /\ threads' = [threads EXCEPT ![t] =
                       [Idle EXCEPT !.pc = "get_test",
                                    !.key = GenerateKey(ns, id)]]
    /\ UNCHANGED <<cache, stats, cret, touched>>
    /\ ThreadFrame

\* if key not in self._cache: misses += 1; return None
ThreadGetTest(t) ==
    /\ At(t, "get_test")
    /\ IF ~HasKey(cache, threads[t].key)
       THEN /\ stats' = [stats EXCEPT !.misses = @ + 1]
            /\ Return(t, "get", NoneVal)
       ELSE /\ Goto(t, "get_fetch")
            /\ UNCHANGED <<stats, cret>>
    /\ UNCHANGED <<cache, touched>>
    /\ ThreadFrame

\* entry = self._cache[key]: KeyError when the key is gone; then
\* entry.is_expired() on the entry in hand
ThreadGetFetch(t) ==
    /\ At(t, "get_fetch")
    /\ IF ~HasKey(cache, threads[t].key)
       THEN RaiseFrom(t, "get")
       ELSE /\ threads' = [threads EXCEPT
                              ![t].value = EntryOf(cache, threads[t].key).value,
                              ![t].pc = IF IsExpired(EntryOf(cache, threads[t].key),
                                                     now)
                                        THEN "get_expire" ELSE "get_move"]
            /\ UNCHANGED cret
    /\ UNCHANGED <<cache, stats, touched>>
    /\ ThreadFrame

\* expired += 1; misses += 1; del self._cache[key]; return None
ThreadGetExpire(t) ==
    /\ At(t, "get_expire")
    /\ stats' = [stats EXCEPT !.expired = @ + 1, !.misses = @ + 1]
    /\ IF ~HasKey(cache, threads[t].key)
       THEN /\ RaiseFrom(t, "get")
            /\ UNCHANGED <<cache, touched>>
       ELSE /\ cache' = DelKey(cache, threads[t].key)
            /\ touched' = Forget(touched, {threads[t].key})
            /\ Return(t, "get", NoneVal)
    /\ ThreadFrame

\* self._cache.move_to_end(key): KeyError when the key is gone; hits += 1;
\* return entry.access()
ThreadGetMove(t) ==
    /\ At(t, "get_move")
    /\ IF ~HasKey(cache, threads[t].key)
       THEN /\ RaiseFrom(t, "get")
            /\ UNCHANGED <<cache, stats, touched>>
       ELSE /\ cache' = GetHit(cache, threads[t].key)
            /\ stats' = [stats EXCEPT !.hits = @ + 1]
            /\ touched' = Touch(touched, threads[t].key)
            /\ Return(t, "get", threads[t].value)
    /\ ThreadFrame

\* the keys of the OrderedDict in order
KeyOrder(c) == [i \in 1..Len(c) |-> c[i].key]

\* for key, entry in self._cache.items(): the iterator is made
ThreadSweepCall(t) ==
    /\ At(t, "idle")
    /\ enabled
    /\ Events(stats) + Len(cache) <= MaxEvents
    /\ threads' = [threads EXCEPT ![t] =
                       [Idle EXCEPT !.pc = "sweep_scan",
                                    !.keys = KeyOrder(cache)]]
    /\ UNCHANGED <<cache, stats, cret, touched>>
    /\ ThreadFrame

\* the loop runs: an OrderedDict that gained, lost or moved a key since
\* the iterator was made raises RuntimeError at the next item
ThreadSweepScan(t) ==
    /\ At(t, "sweep_scan")
    /\ IF threads[t].keys # <<>> /\ KeyOrder(cache) # threads[t].keys
       THEN RaiseFrom(t, "cleanup_expired")
       ELSE /\ threads' = [threads EXCEPT
                              ![t].pc = "sweep_del",
                              ![t].keys = KeyOrder(SelectSeq(cache,
                                              LAMBDA e : IsExpired(e, now)))]
            /\ UNCHANGED cret
    /\ UNCHANGED <<cache, stats, touched>>
    /\ ThreadFrame

\* for key in expired_keys: del self._cache[key], KeyError when a key is
\* gone; expired += len(expired_keys); return len(expired_keys)
ThreadSweepDel(t) ==
    LET gone == {threads[t].keys[i] : i \in 1..Len(threads[t].keys)} IN
    /\ At(t, "sweep_del")
    /\ IF \E k \in gone : ~HasKey(cache, k)
       THEN /\ RaiseFrom(t, "cleanup_expired")
            /\ UNCHANGED <<cache, stats, touched>>
       ELSE /\ cache' = SelectSeq(cache, LAMBDA e : e.key \notin gone)
            /\ touched' = Forget(touched, gone)
            /\ stats' = [stats EXCEPT !.expired = @ + Cardinality(gone)]
            /\ Return(t, "cleanup_expired", Cardinality(gone))
    /\ ThreadFrame

(***************************************************************************)
(* ResponseCache.invalidate                                                 *)
(***************************************************************************)
Invalidate(ns, id) ==
    LET k == GenerateKey(ns, id) IN
    /\ IF ~Disabled(enabled) /\ HasKey(cache, k)
       THEN /\ cache' = DelKey(cache, k)
            /\ touched' = Forget(touched, {k})
            /\ cret' = Call("invalidate", TRUE)
       ELSE /\ cret' = Call("invalidate", FALSE)
            /\ UNCHANGED <<cache, touched>>
    /\ UNCHANGED <<now, enabled, max_size, default_ttl, stats>>

(***************************************************************************)
(* ResponseCache.invalidate_namespace: the loop body is `pass`, count = 0   *)
(***************************************************************************)
InvalidateNamespace(ns) ==
    /\ cret' = Call("invalidate_namespace", 0)
    /\ UNCHANGED <<now, enabled, max_size, default_ttl, cache, stats, touched>>

(***************************************************************************)
(* ResponseCache.clear (no enabled test)                                    *)
(***************************************************************************)
Clear ==
    /\ cache' = <<>>
    /\ touched' = <<>>
    /\ cret' = Call("clear", NoneVal)
    /\ UNCHANGED <<now, enabled, max_size, default_ttl, stats>>

(***************************************************************************)
(* ResponseCache.cleanup_expired                                            *)
(***************************************************************************)
ExpiredKeys(c, t) == {c[i].key : i \in {j \in 1..Len(c) : IsExpired(c[j], t)}}

CleanupExpired ==
    LET gone == ExpiredKeys(cache, now) IN
    /\ IF Disabled(enabled)
       THEN /\ cret' = Call("cleanup_expired", 0)
            /\ UNCHANGED <<cache, stats, touched>>
       ELSE /\ Events(stats) + Cardinality(gone) <= MaxEvents
            /\ cache' = SelectSeq(cache, LAMBDA e : e.key \notin gone)
            /\ touched' = Forget(touched, gone)
            /\ stats' = [stats EXCEPT !.expired = @ + Cardinality(gone)]
            /\ cret' = Call("cleanup_expired", Cardinality(gone))
    /\ UNCHANGED <<now, enabled, max_size, default_ttl>>

(***************************************************************************)
(* ResponseCache.get_stats; hit_rate is kept in hundredths of a percent:   *)
(* round(hits / total_requests * 100, 2), ties to the even hundredth.      *)
(***************************************************************************)
RoundHalfEven(n, d) ==
    LET q == n \div d
        r == n % d
    IN  IF 2 * r > d \/ (2 * r = d /\ q % 2 = 1) THEN q + 1 ELSE q

HitRateAsFraction(hits, total) ==
    IF total > 0 THEN RoundHalfEven(100 * hits, total) ELSE 0

HitRate(hits, total) ==
    IF total > 0 THEN RoundHalfEven(10000 * hits, total) ELSE 0

GetStats ==
    [enabled |-> enabled,
     size |-> Len(cache),
     max_size |-> max_size,
     default_ttl |-> default_ttl,
     hits |-> stats.hits,
     misses |-> stats.misses,
     hit_rate |-> HitRate(stats.hits, stats.hits + stats.misses),
     evictions |-> stats.evictions,
     expired |-> stats.expired,
     total_requests |-> stats.hits + stats.misses]

(***************************************************************************)
(* The clock of the cache: one second passes.                               *)
(***************************************************************************)
TickSecond ==
    /\ now < MaxCacheTime
    /\ now' = now + 1
    /\ cret' = Call("tick", NoneVal)
    /\ UNCHANGED <<enabled, max_size, default_ttl, cache, stats, touched>>

(***************************************************************************)
(*              CostLimiter (backend/app/middleware/cost_limiter.py)       *)
(***************************************************************************)
SecsPerDay == 86400
HalfHour == WindowSecs \div 2

\* one element of a session deque: (timestamp, cost)
Request(t, cost) == [t |-> t, cost |-> cost]

\* session_requests[session_id] of a defaultdict, without creating the key
Window(sr, s) == IF s \in DOMAIN sr THEN sr[s] ELSE <<>>

NewestCost(sc, s) ==
    IF Window(session_requests, s) = <<>> THEN 0
    ELSE session_requests[s][Len(session_requests[s])].cost

\* session_costs[session_id] of a defaultdict(float), without creating the key
CostOf(sc, s) == IF s \in DOMAIN sc THEN sc[s] ELSE 0

\* d[k] = v on a dict
Assign(d, k, v) == [x \in DOMAIN d \cup {k} |-> IF x = k THEN v ELSE d[x]]

\* del d[k] for every k of ks
Without(d, ks) == [x \in DOMAIN d \ ks |-> d[x]]

DequeAppendFront(w, e) == <<e>> \o w

\* deque.append on a deque with maxlen: a full deque drops its left end
DequeAppend(w, e) ==
    IF Len(w) >= DequeMaxLen THEN Append(Tail(w), e) ELSE Append(w, e)

(***************************************************************************)
(* CostLimiter._cleanup_old_sessions: at most once per cleanup_interval,   *)
(* forget the sessions whose last request is older than the window.        *)
(***************************************************************************)
StaleSessionsHalfWindow(sr, t) ==
    {s \in DOMAIN sr : sr[s] # <<>> /\ sr[s][Len(sr[s])].t < t - HalfHour}

StaleSessions(sr, t) ==
    {s \in DOMAIN sr : sr[s] # <<>> /\ sr[s][Len(sr[s])].t < t - WindowSecs}

CleanupOldSessionsUngated(sr, sc, lc, t) ==
    [sr |-> Without(sr, StaleSessions(sr, t)),
     sc |-> Without(sc, StaleSessions(sr, t)),
     lc |-> t]

CleanupOldSessions(sr, sc, lc, t) ==
    IF t - lc < CleanupInterval
    THEN [sr |-> sr, sc |-> sc, lc |-> lc]
    ELSE [sr |-> Without(sr, StaleSessions(sr, t)),
          sc |-> Without(sc, StaleSessions(sr, t)),
          lc |-> t]

(***************************************************************************)
(* CostLimiter._check_session_limit                                        *)
(***************************************************************************)
TrimOldOnce(w, t) ==
    IF w # <<>> /\ t - w[1].t > WindowSecs THEN Tail(w) ELSE w

\* while requests and current_time - requests[0][0] > 3600: popleft()
RECURSIVE TrimOld(_, _)
TrimOld(w, t) ==
    IF w # <<>> /\ t - w[1].t > WindowSecs THEN TrimOld(Tail(w), t) ELSE w

WaitMinutesRoundedUp(w, t) == (WindowSecs - (t - w[1].t) + 59) \div 60

\* int(3600 - (current_time - oldest_request)) // 60
WaitMinutes(w, t) == (WindowSecs - (t - w[1].t)) \div 60

\* the result of a tier: ok, or the tier's rejection, or an exception
TierOk == [ok |-> TRUE, raised |-> FALSE, limit |-> -1, current |-> -1,
           wait |-> -1]

TierFull(limit, current, wait) ==
    [ok |-> FALSE, raised |-> FALSE, limit |-> limit, current |-> current,
     wait |-> wait]

\* requests[0] of an empty deque: IndexError
TierRaised == [ok |-> FALSE, raised |-> TRUE, limit |-> -1, current |-> -1,
               wait |-> -1]

SessionFull(w, limit) == Len(w) >= limit

CheckSessionLimit(w, limit, t) ==
    IF SessionFull(w, limit)
    THEN IF w = <<>>
         THEN TierRaised
         ELSE TierFull(limit, Len(w), WaitMinutes(w, t))
    ELSE TierOk

(***************************************************************************)
(* The api_usage collection.  A document is keyed by (portfolio_id, date); *)
(* dates are day numbers, months are runs of DaysPerMonth days.            *)
(***************************************************************************)
Today(t) == t \div SecsPerDay

MonthStartNeverMoves(t) == 0

MonthStart(t) == (Today(t) \div DaysPerMonth) * DaysPerMonth

Matches(l, p, d) ==
    {i \in 1..Len(l) : l[i].portfolio_id = p /\ l[i].date = d}

Min(S) == CHOOSE x \in S : \A y \in S : x <= y

\* find_one({portfolio_id, date})
FindOne(l, p, d) ==
    IF Matches(l, p, d) = {} THEN NoneVal ELSE l[Min(Matches(l, p, d))]

RECURSIVE SumCounts(_)
SumCounts(l) ==
    IF l = <<>> THEN 0 ELSE l[1].request_count + SumCounts(Tail(l))

\* aggregate([$match portfolio_id, date >= month_start; $group $sum])
Aggregate(l, p, start) ==
    SumCounts(SelectSeq(l, LAMBDA doc :
                               doc.portfolio_id = p /\ doc.date >= start))

\* update_one({portfolio_id, date}, {$inc, $set, $setOnInsert}, upsert=True)
NewDoc(p, d, cost, tokens, t) ==
    [portfolio_id |-> p, date |-> d, request_count |-> 1,
     total_cost |-> cost, total_tokens |-> tokens,
     created_at |-> t, updated_at |-> t]

IncDocKeepsCount(doc, cost, tokens, t) ==
    [doc EXCEPT !.total_cost = @ + cost, !.total_tokens = @ + tokens,
                !.updated_at = t]

IncDoc(doc, cost, tokens, t) ==
    [doc EXCEPT !.request_count = @ + 1, !.total_cost = @ + cost,
                !.total_tokens = @ + tokens, !.updated_at = t]

UpsertAlwaysInserts(l, p, d, cost, tokens, t) ==
    Append(l, NewDoc(p, d, cost, tokens, t))

Upsert(l, p, d, cost, tokens, t) ==
    IF Matches(l, p, d) = {}
    THEN Append(l, NewDoc(p, d, cost, tokens, t))
    ELSE [l EXCEPT ![Min(Matches(l, p, d))] = IncDoc(@, cost, tokens, t)]

(***************************************************************************)
(* CostLimiter._check_daily_limit and _check_monthly_limit: a failing      *)
(* store call is caught and the tier passes.                               *)
(***************************************************************************)
\* usage_doc["request_count"] if usage_doc else 0
DailyCount(l, p, t) ==
    IF Matches(l, p, Today(t)) = {}
    THEN 0
    ELSE FindOne(l, p, Today(t)).request_count

OnStoreErrorRejects(limit) == TierFull(limit, 0, -1)

OnStoreError(limit) == TierOk

CheckDailyLimitStrict(l, p, limit, t, fails) ==
    IF fails THEN OnStoreError(limit)
    ELSE IF DailyCount(l, p, t) > limit
    THEN TierFull(limit, DailyCount(l, p, t), -1)
    ELSE TierOk

CheckDailyLimit(l, p, limit, t, fails) ==
    IF fails THEN OnStoreError(limit)
    ELSE IF DailyCount(l, p, t) >= limit
    THEN TierFull(limit, DailyCount(l, p, t), -1)
    ELSE TierOk

CheckMonthlyLimit(l, p, limit, t, fails) ==
    IF fails THEN OnStoreError(limit)
    ELSE IF Aggregate(l, p, MonthStart(t)) >= limit
    THEN TierFull(limit, Aggregate(l, p, MonthStart(t)), -1)
    ELSE TierOk

(***************************************************************************)
(* CostLimiter.check_limits.  The decision lists the store calls made      *)
(* (reads) next to the fields of the returned dict; a field the dict does  *)
(* not carry is -1.                                                        *)
(***************************************************************************)
Decision(allowed, tier, r, reads) ==
    [op |-> "check_limits", raised |-> r.raised, allowed |-> allowed,
     tier |-> tier, limit |-> r.limit, current |-> r.current,
     wait |-> r.wait, reads |-> reads]

LimiterCall(op) ==
    [op |-> op, raised |-> FALSE, allowed |-> FALSE, tier |-> NoneVal,
     limit |-> -1, current |-> -1, wait |-> -1, reads |-> <<>>]

FailsDaily(m) == m \in {"fail_daily", "fail_both"}

FailsMonthly(m) == m \in {"fail_monthly", "fail_both"}

\* Tier 2 and 3, reached when the session tier passed and db_client is set
DatabaseTiersBothRead(l, p, dl, ml, t, m) ==
    LET daily == CheckDailyLimit(l, p, dl, t, FailsDaily(m))
        monthly == CheckMonthlyLimit(l, p, ml, t, FailsMonthly(m))
    IN  IF ~monthly.ok
        THEN Decision(FALSE, "monthly", monthly, <<"find_one", "aggregate">>)
        ELSE IF ~daily.ok
        THEN Decision(FALSE, "daily", daily, <<"find_one", "aggregate">>)
        ELSE Decision(TRUE, NoneVal, TierOk, <<"find_one", "aggregate">>)

DatabaseTiers(l, p, dl, ml, t, m) ==
    LET daily == CheckDailyLimit(l, p, dl, t, FailsDaily(m))
        monthly == CheckMonthlyLimit(l, p, ml, t, FailsMonthly(m))
    IN  IF ~daily.ok
        THEN Decision(FALSE, "daily", daily, <<"find_one">>)
        ELSE IF ~monthly.ok
        THEN Decision(FALSE, "monthly", monthly, <<"find_one", "aggregate">>)
        ELSE Decision(TRUE, NoneVal, TierOk, <<"find_one", "aggregate">>)

CheckLimits(s, p, m) ==
    LET cl == CleanupOldSessions(session_requests, session_costs,
                                 last_cleanup, now)
        w == TrimOld(Window(cl.sr, s), now)
        session == CheckSessionLimit(w, session_limit, now)
    IN  /\ session_requests' = Assign(cl.sr, s, w)
        /\ session_costs' = cl.sc
        /\ last_cleanup' = cl.lc
        /\ lret' = IF session.raised
                   THEN Decision(FALSE, NoneVal, session, <<>>)
                   ELSE IF ~session.ok
                   THEN Decision(FALSE, "session",
                                 [session EXCEPT !.current = -1], <<>>)
                   ELSE IF m = "none"
                   THEN Decision(TRUE, NoneVal, TierOk, <<>>)
                   ELSE DatabaseTiers(ledger, p, daily_limit, monthly_limit,
                                      now, m)
        /\ UNCHANGED <<now, session_limit, daily_limit, monthly_limit,
                       ledger>>

(***************************************************************************)
(* CostLimiter.record_request                                              *)
(***************************************************************************)
RecordRequest(s, cost) ==
    /\ session_requests' =
           Assign(session_requests, s,
                  DequeAppend(Window(session_requests, s), Request(now, cost)))
    /\ session_costs' = Assign(session_costs, s, CostOf(session_costs, s) + cost)
    /\ lret' = LimiterCall("record_request")
    /\ UNCHANGED <<now, last_cleanup, session_limit, daily_limit,
                   monthly_limit, ledger>>

(***************************************************************************)
(* CostLimiter.track_usage: one upsert; a failing store call is caught and *)
(* leaves the collection as it was.                                        *)
(***************************************************************************)
TrackUsagePropagates(storeFails) == storeFails

\* except Exception: the error is logged, track_usage returns
TrackUsageRaises(storeFails) == FALSE

TrackUsage(p, cost, tokens, storeFails) ==
    /\ ledger' = IF storeFails
                 THEN ledger
                 ELSE Upsert(ledger, p, Today(now), cost, tokens, now)
    /\ lret' = [LimiterCall("track_usage") EXCEPT
                   !.raised = TrackUsageRaises(storeFails)]
    /\ UNCHANGED <<now, session_requests, session_costs, last_cleanup,
                   session_limit, daily_limit, monthly_limit>>

(***************************************************************************)
(* CostLimiter.get_session_stats                                           *)
(***************************************************************************)
GetSessionStats(s) ==
    [session_id |-> s,
     request_count |-> Len(Window(session_requests, s)),
     limit |-> session_limit,
     remaining |-> session_limit - Len(Window(session_requests, s)),
     total_cost |-> CostOf(session_costs, s)]

(***************************************************************************)
(* The chat endpoint (backend/app/api/chat.py).  A handler awaits          *)
(* check_limits; other handlers run while it awaits the store.  When the   *)
(* decision allows, it processes the message and calls record_request and  *)
(* track_usage.  inflight counts, per session, the handlers in between.    *)
(***************************************************************************)
NoteVerdict(s) ==
    verdict' = [verdict EXCEPT ![s] =
                   IF lret'.tier = "session" THEN "rejected"
                   ELSE IF @ = "rejected" THEN "readmitted" ELSE @]

ChatCheck(s, p, m) ==
    /\ inflight[s] < MaxHandlers
    /\ CheckLimits(s, p, m)
    /\ inflight' = [inflight EXCEPT ![s] = IF lret'.allowed THEN @ + 1 ELSE @]
    /\ NoteVerdict(s)
    /\ UNCHANGED <<checks, recorded>>

ChatFinish(s, p, cost, tokens, storeFails) ==
    /\ inflight[s] > 0
    /\ inflight' = [inflight EXCEPT ![s] = @ - 1]
    /\ session_requests' =
           Assign(session_requests, s,
                  DequeAppend(Window(session_requests, s), Request(now, cost)))
    /\ session_costs' = Assign(session_costs, s, CostOf(session_costs, s) + cost)
    /\ ledger' = IF storeFails
                 THEN ledger
                 ELSE Upsert(ledger, p, Today(now), cost, tokens, now)
    /\ lret' = LimiterCall("track_usage")
    /\ UNCHANGED <<now, last_cleanup, session_limit, daily_limit,
                   monthly_limit, verdict, checks, recorded>>

(***************************************************************************)
(* ChatService.process_message (backend/app/services/chat_service.py).     *)
(* A result carries success, metadata.cost, metadata.tokens_used and       *)
(* metadata.from_cache; marked tells whether the dict has the top-level    *)
(* key "from_cache" that a cache hit writes.  The dict returned by a hit   *)
(* is the dict held by the cache entry, so the mark is written to both.    *)
(***************************************************************************)
ChatNamespace == "chat_response"

\* cache_key = f"{portfolio_id}:{query}"
ChatIdentifier(p, q) == p \o ":" \o q

FreshResult(cost, tokens) ==
    [success |-> TRUE, cost |-> cost, tokens |-> tokens,
     from_cache |-> FALSE, marked |-> FALSE, context |-> TRUE]

\* _build_context caught an exception or found nothing: the response is
\* generated on "Error retrieving context." with context_count 0
BlindResult(cost, tokens) == [FreshResult(cost, tokens) EXCEPT !.context = FALSE]

\* the response built after retrieval and generation
Generated(gen, cost, tokens) ==
    IF gen = "no_context" THEN BlindResult(cost, tokens)
    ELSE FreshResult(cost, tokens)

\* the dict built in the except branch
FailureResult ==
    [success |-> FALSE, cost |-> 0, tokens |-> 0,
     from_cache |-> FALSE, marked |-> FALSE, context |-> FALSE]

\* cached["from_cache"] = True
MarkCached(value) == [value EXCEPT !.marked = TRUE]

\* the cache state and the result after process_message; gen is the
\* outcome of retrieval and generation when the cache has no response.
\* Every exception, that of a set which finds nothing to evict included,
\* ends in the except branch.
ProcessMessage(cs, en, limit, dflt, p, q, gen, cost, tokens, t) ==
    LET k == GenerateKey(ChatNamespace, ChatIdentifier(p, q))
        got == GetIn(cs, en, k, t)
    IN  IF got.hit
        THEN [got EXCEPT
                 !.cache = SetItem(@, k, [EntryOf(@, k) EXCEPT
                                             !.value = MarkCached(@)]),
                 !.ret = MarkCached(got.ret)]
        ELSE IF gen = "fail" \/ (en /\ EvictsNothing(got.cache, k, limit))
        THEN [got EXCEPT !.ret = FailureResult]
        ELSE [SetIn(got, en, limit, dflt, k, Generated(gen, cost, tokens),
                    NoTtl, t)
                 EXCEPT !.ret = Generated(gen, cost, tokens)]

(***************************************************************************)
(* The chat endpoint handler by handler.  A handler awaits check_limits,   *)
(* then runs process_message, record_request and the start of track_usage  *)
(* without a break, then awaits the store call of track_usage and returns  *)
(* the response.  A handler may be abandoned after any of its calls.       *)
(***************************************************************************)
HandlerIdle(response) ==
    [pc |-> "idle", session |-> NoneVal, portfolio |-> NoneVal,
     query |-> NoneVal, result |-> NoneVal, response |-> response]

Admitted == {h \in Handlers : handlers[h].pc = "admitted"}

ChatBeginAdmitsAll(h, s, p, q, m) ==
    /\ handlers[h].pc = "idle"
    /\ served + Cardinality(Admitted) < MaxChats
    /\ CheckLimits(s, p, m)
    /\ handlers' = [handlers EXCEPT ![h] =
                        [pc |-> "admitted", session |-> s, portfolio |-> p,
                         query |-> q, result |-> NoneVal,
                         response |-> NoneVal]]
    /\ UNCHANGED <<served, verdict, checks, recorded, inflight>>

\* check_limits; a rejection is answered with status 429, an exception
\* with status 500
ChatBegin(h, s, p, q, m) ==
    /\ handlers[h].pc = "idle"
    /\ served + Cardinality(Admitted) < MaxChats
    /\ CheckLimits(s, p, m)
    /\ handlers' = [handlers EXCEPT ![h] =
                        IF lret'.raised THEN HandlerIdle("500")
                        ELSE IF ~lret'.allowed THEN HandlerIdle("429")
                        ELSE [pc |-> "admitted", session |-> s,
                              portfolio |-> p, query |-> q,
                              result |-> NoneVal, response |-> NoneVal]]
    /\ UNCHANGED <<served, verdict, checks, recorded, inflight>>

\* process_message, record_request and track_usage up to its store call;
\* stop tells where the handler is abandoned, if it is
ChatWork(h, gen, cost, tokens, stop) ==
    LET pm == ProcessMessage(CacheState(cache, stats, touched), enabled,
                             max_size, default_ttl, handlers[h].portfolio,
                             handlers[h].query, gen, cost, tokens, now)
    IN  /\ handlers[h].pc = "admitted"
        /\ cache' = pm.cache
        /\ stats' = pm.stats
        /\ touched' = pm.touched
        /\ cret' = Call("process_message", pm.ret)
        /\ served' = served + 1
        /\ IF stop = "after_process_message"
           THEN /\ UNCHANGED <<limVars, recorded>>
                /\ UNCHANGED now
           ELSE /\ RecordRequest(handlers[h].session, pm.ret.cost)
                /\ recorded' = recorded + 1
        /\ handlers' = [handlers EXCEPT ![h] =
                            IF stop = "never"
                            THEN [@ EXCEPT !.pc = "tracking",
                                           !.result = pm.ret]
                            ELSE HandlerIdle("abandoned")]
        /\ UNCHANGED <<enabled, max_size, default_ttl, verdict, checks,
                       inflight>>

\* the store call of track_usage ends; the response is returned
ChatTrack(h, storeFails) ==
    /\ handlers[h].pc = "tracking"
    /\ TrackUsage(handlers[h].portfolio, handlers[h].result.cost,
                  handlers[h].result.tokens, storeFails)
    /\ handlers' = [handlers EXCEPT ![h] =
                        [HandlerIdle(IF lret'.raised THEN "500" ELSE "200")
                            EXCEPT !.result = handlers[h].result]]
    /\ UNCHANGED <<served, limHist>>

\* the handler is abandoned while it awaits; a store call of track_usage
\* that is under way is applied or lost
ChatAbandon(h, applied) ==
    /\ handlers[h].pc \in {"admitted", "tracking"}
    /\ handlers[h].pc = "admitted" => ~applied
    /\ IF applied
       THEN TrackUsage(handlers[h].portfolio, handlers[h].result.cost,
                       handlers[h].result.tokens, FALSE)
       ELSE UNCHANGED <<now, limVars>>
    /\ handlers' = [handlers EXCEPT ![h] = HandlerIdle("abandoned")]
    /\ UNCHANGED <<served, limHist>>

(***************************************************************************)
(* The clock of the limiter.                                               *)
(***************************************************************************)
Pass(secs) ==
    /\ now' = now + secs
    /\ UNCHANGED limVars

TickHalfHour ==
    /\ (now % SecsPerDay) \div HalfHour < MaxHalfHours
    /\ Pass(HalfHour)

TickDay ==
    /\ Today(now) < MaxDays
    /\ Pass(SecsPerDay)

TickHour ==
    /\ now < WindowSecs
    /\ Pass(WindowSecs)

(***************************************************************************)
(* CostLimiter.__init__ and the singletons of the application.             *)
(***************************************************************************)
LimiterInit ==
    /\ session_requests = [s \in {} |-> <<>>]
    /\ session_costs = [s \in {} |-> 0]
    /\ last_cleanup = now
    /\ ledger = <<>>
    /\ lret = LimiterCall("init")

LimiterSingleton ==
    /\ LimiterInit
    /\ session_limit = RateLimitSession
    /\ daily_limit = RateLimitDaily
    /\ monthly_limit = RateLimitMonthly

NeverSeen == -1

LimHistInit ==
    /\ verdict = [s \in Sessions |-> "new"]
    /\ checks = 0
    /\ recorded = 0
    /\ inflight = [s \in Sessions |-> 0]
    /\ handlers = [h \in Handlers |-> HandlerIdle(NoneVal)]
    /\ served = 0
    /\ lastSeen = [s \in Sessions |-> NeverSeen]

CacheSingleton ==
    /\ enabled = TRUE
    /\ max_size = SingletonMaxSize
    /\ default_ttl = CacheTtl
    /\ cache = <<>>
    /\ stats = [hits |-> 0, misses |-> 0, evictions |-> 0, expired |-> 0]
    /\ cret = Call("init", NoneVal)
    /\ touched = <<>>

(***************************************************************************)
(* ResponseCache.__init__                                                   *)
(***************************************************************************)
CacheInit ==
    /\ enabled \in BOOLEAN
    /\ max_size \in CacheSizes
    /\ default_ttl \in DefaultTtls
    /\ cache = <<>>
    /\ stats = [hits |-> 0, misses |-> 0, evictions |-> 0, expired |-> 0]
    /\ cret = Call("init", NoneVal)
    /\ touched = <<>>

NeverSet == [deadline |-> -1, value |-> NoneVal]

HistInit ==
    /\ everSet = {}
    /\ dropped = {}
    /\ lastSet = [k \in AllKeys |-> NeverSet]
    /\ threads = [t \in Threads |-> Idle]

Init ==
    /\ now = 0
    /\ CacheInit
    /\ HistInit
    /\ LimiterSingleton
    /\ LimHistInit

Next ==
    \/ \E ns \in Namespaces, id \in Identifiers :
          Get(ns, id) /\ UNCHANGED <<cacheHist, limVars, limHist, thrVars, chatVars, seenHist>>
    \/ \E ns \in Namespaces, id \in Identifiers, v \in Values :
          Set(ns, id, v, NoTtl) /\ UNCHANGED <<cacheHist, limVars, limHist, thrVars, chatVars, seenHist>>
    \/ \E ns \in Namespaces, id \in Identifiers :
          Invalidate(ns, id) /\ UNCHANGED <<cacheHist, limVars, limHist, thrVars, chatVars, seenHist>>
    \/ \E ns \in Namespaces :
          InvalidateNamespace(ns) /\ UNCHANGED <<cacheHist, limVars, limHist, thrVars, chatVars, seenHist>>
    \/ Clear /\ UNCHANGED <<cacheHist, limVars, limHist, thrVars, chatVars, seenHist>>
    \/ CleanupExpired /\ UNCHANGED <<cacheHist, limVars, limHist, thrVars, chatVars, seenHist>>
    \/ TickSecond /\ UNCHANGED <<cacheHist, limVars, limHist, thrVars, chatVars, seenHist>>

Spec == Init /\ [][Next]_vars

(***************************************************************************)
(* The cache as the constructor makes it for a max_size argument that is   *)
(* negative, zero or positive: __init__ stores the argument as it is.      *)
(***************************************************************************)
ConstructorSizes == {-1, 0, 1}

InitSizes ==
    /\ now = 0
    /\ enabled = TRUE
    /\ max_size \in ConstructorSizes
    /\ default_ttl \in DefaultTtls
    /\ cache = <<>>
    /\ stats = [hits |-> 0, misses |-> 0, evictions |-> 0, expired |-> 0]
    /\ cret = Call("init", NoneVal)
    /\ touched = <<>>
    /\ HistInit
    /\ LimiterSingleton
    /\ LimHistInit

SpecSizes == InitSizes /\ [][Next]_vars

(***************************************************************************)
(* The sweep: an enabled cache of three entries, sets with a short and a   *)
(* long ttl, gets, cleanup_expired and the clock.                          *)
(***************************************************************************)
SweepTtls == {NoTtl, 3}

InitSweep ==
    /\ now = 0
    /\ enabled = TRUE
    /\ max_size = 3
    /\ default_ttl \in DefaultTtls
    /\ cache = <<>>
    /\ stats = [hits |-> 0, misses |-> 0, evictions |-> 0, expired |-> 0]
    /\ cret = Call("init", NoneVal)
    /\ touched = <<>>
    /\ HistInit
    /\ LimiterSingleton
    /\ LimHistInit

SweepIdle == UNCHANGED <<cacheHist, limVars, limHist, thrVars, chatVars, seenHist>>

NextSweep ==
    \/ \E ns \in Namespaces, id \in Identifiers : Get(ns, id) /\ SweepIdle
    \/ \E ns \in Namespaces, id \in Identifiers, ttl \in SweepTtls :
          Set(ns, id, "v1", ttl) /\ SweepIdle
    \/ CleanupExpired /\ SweepIdle
    \/ TickSecond /\ SweepIdle

SpecSweep == InitSweep /\ [][NextSweep]_vars

(***************************************************************************)
(* The cache with explicit ttl arguments; lastSet records, per key, the    *)
(* deadline (time of the set plus the ttl asked for) and the value of the  *)
(* last set, and keeps them when the entry is removed.                     *)
(***************************************************************************)
AskedTtl(ttl) == IF ttl = NoTtl THEN default_ttl ELSE ttl

NextTtl ==
    \/ \E id \in Identifiers :
          Get("a", id) /\ UNCHANGED <<cacheHist, limVars, limHist, thrVars, chatVars, seenHist>>
    \/ \E id \in Identifiers, v \in Values, ttl \in TtlArgs :
          /\ Set("a", id, v, ttl)
          /\ lastSet' = [lastSet EXCEPT ![GenerateKey("a", id)] =
                            [deadline |-> now + AskedTtl(ttl), value |-> v]]
          /\ UNCHANGED <<everSet, dropped, limVars, limHist, thrVars, chatVars, seenHist>>
    \/ \E id \in Identifiers :
          Invalidate("a", id) /\ UNCHANGED <<cacheHist, limVars, limHist, thrVars, chatVars, seenHist>>
    \/ Clear /\ UNCHANGED <<cacheHist, limVars, limHist, thrVars, chatVars, seenHist>>
    \/ CleanupExpired /\ UNCHANGED <<cacheHist, limVars, limHist, thrVars, chatVars, seenHist>>
    \/ TickSecond /\ UNCHANGED <<cacheHist, limVars, limHist, thrVars, chatVars, seenHist>>

SpecTtl == Init /\ [][NextTtl]_vars

(***************************************************************************)
(* The cache at one instant; everSet records the (namespace, identifier)   *)
(* pairs passed to set, dropped the keys invalidated or cleared and not    *)
(* set since.                                                              *)
(***************************************************************************)
NextPairs ==
    \/ \E ns \in Namespaces, id \in Identifiers :
          Get(ns, id) /\ UNCHANGED <<cacheHist, limVars, limHist, thrVars, chatVars, seenHist>>
    \/ \E ns \in Namespaces, id \in Identifiers, v \in Values :
          /\ Set(ns, id, v, NoTtl)
          /\ everSet' = everSet \cup {<<ns, id>>}
          /\ dropped' = dropped \ {GenerateKey(ns, id)}
          /\ UNCHANGED <<lastSet, limVars, limHist, thrVars, chatVars, seenHist>>
    \/ \E ns \in Namespaces, id \in Identifiers :
          /\ Invalidate(ns, id)
          /\ dropped' = dropped \cup {GenerateKey(ns, id)}
          /\ UNCHANGED <<everSet, lastSet, limVars, limHist, thrVars, chatVars, seenHist>>
    \/ /\ Clear
       /\ dropped' = AllKeys
       /\ UNCHANGED <<everSet, lastSet, limVars, limHist, thrVars, chatVars, seenHist>>
    \/ CleanupExpired /\ UNCHANGED <<cacheHist, limVars, limHist, thrVars, chatVars, seenHist>>
    \/ \E ns \in Namespaces :
          InvalidateNamespace(ns) /\ UNCHANGED <<cacheHist, limVars, limHist, thrVars, chatVars, seenHist>>

SpecPairs == Init /\ [][NextPairs]_vars


(***************************************************************************)
(* The cache under threads that call set on new keys at the same time.     *)
(***************************************************************************)
ThreadsIdle == UNCHANGED <<cacheHist, limVars, limHist, chatVars, seenHist>>

NextThreads ==
    \/ \E t \in Threads, ns \in Namespaces, id \in Identifiers,
          v \in Values :
          ThreadCall(t, ns, id, v) /\ ThreadsIdle
    \/ \E t \in Threads : ThreadTest(t) /\ ThreadsIdle
    \/ \E t \in Threads : ThreadPick(t) /\ ThreadsIdle
    \/ \E t \in Threads : ThreadDel(t) /\ ThreadsIdle
    \/ \E t \in Threads : ThreadInsert(t) /\ ThreadsIdle
    \/ \E t \in Threads : ThreadMove(t) /\ ThreadsIdle

SpecThreads == Init /\ [][NextThreads]_vars

(***************************************************************************)
(* The cache under threads that call get, set, cleanup_expired and         *)
(* invalidate at the same time: a cache of one entry, two keys and a       *)
(* clock.                                                                  *)
(***************************************************************************)
InitRace ==
    /\ now = 0
    /\ enabled = TRUE
    /\ max_size = 1
    /\ default_ttl \in DefaultTtls
    /\ cache = <<>>
    /\ stats = [hits |-> 0, misses |-> 0, evictions |-> 0, expired |-> 0]
    /\ cret = Call("init", NoneVal)
    /\ touched = <<>>
    /\ HistInit
    /\ LimiterSingleton
    /\ LimHistInit

NextRace ==
    \/ \E t \in Threads, id \in Identifiers :
          ThreadCall(t, "a", id, "v1") /\ ThreadsIdle
    \/ \E t \in Threads : ThreadTest(t) /\ ThreadsIdle
    \/ \E t \in Threads : ThreadPick(t) /\ ThreadsIdle
    \/ \E t \in Threads : ThreadDel(t) /\ ThreadsIdle
    \/ \E t \in Threads : ThreadInsert(t) /\ ThreadsIdle
    \/ \E t \in Threads : ThreadMove(t) /\ ThreadsIdle
    \/ \E t \in Threads, id \in Identifiers :
          ThreadGetCall(t, "a", id) /\ ThreadsIdle
    \/ \E t \in Threads : ThreadGetTest(t) /\ ThreadsIdle
    \/ \E t \in Threads : ThreadGetFetch(t) /\ ThreadsIdle
    \/ \E t \in Threads : ThreadGetExpire(t) /\ ThreadsIdle
    \/ \E t \in Threads : ThreadGetMove(t) /\ ThreadsIdle
    \/ \E t \in Threads : ThreadSweepCall(t) /\ ThreadsIdle
    \/ \E t \in Threads : ThreadSweepScan(t) /\ ThreadsIdle
    \/ \E t \in Threads : ThreadSweepDel(t) /\ ThreadsIdle
    \/ \E id \in Identifiers :
          Invalidate("a", id) /\ UNCHANGED thrVars /\ ThreadsIdle
    \/ TickSecond /\ UNCHANGED thrVars /\ ThreadsIdle

SpecRace == InitRace /\ [][NextRace]_vars

(***************************************************************************)
(* The session tier under the chat endpoint: handlers of two sessions and  *)
(* one portfolio, with the limits of the ledger tiers as configured by     *)
(* default and a clock that steps by half hours.                           *)
(***************************************************************************)
LimiterIdle == UNCHANGED <<cacheVars, cacheHist, thrVars, chatVars, seenHist>>

InitWindow ==
    /\ now = 0
    /\ CacheSingleton
    /\ HistInit
    /\ LimiterInit
    /\ session_limit \in SessionLimits
    /\ daily_limit = RateLimitDaily
    /\ monthly_limit = RateLimitMonthly
    /\ LimHistInit

NextWindow ==
    \/ \E s \in Sessions :
          ChatCheck(s, "p1", "ok") /\ LimiterIdle
    \/ \E s \in Sessions, cost \in Costs, tokens \in Tokens :
          ChatFinish(s, "p1", cost, tokens, FALSE) /\ LimiterIdle
    \/ TickHalfHour /\ UNCHANGED limHist /\ LimiterIdle

SpecWindow == InitWindow /\ [][NextWindow]_vars

(***************************************************************************)
(* The three tiers call by call: one session, two portfolios, every        *)
(* behaviour of the store, and a clock that steps by days.                 *)
(***************************************************************************)
InitTiers ==
    /\ now = 0
    /\ CacheSingleton
    /\ HistInit
    /\ LimiterInit
    /\ session_limit \in TierLimits
    /\ daily_limit \in DailyLimits
    /\ monthly_limit \in MonthlyLimits
    /\ LimHistInit

NextTiers ==
    \/ \E p \in Portfolios, m \in DbModes :
          CheckLimits("s1", p, m) /\ UNCHANGED limHist /\ LimiterIdle
    \/ \E cost \in Costs :
          /\ Len(Window(session_requests, "s1")) < MaxWindow
          /\ RecordRequest("s1", cost)
          /\ UNCHANGED limHist /\ LimiterIdle
    \/ \E p \in Portfolios, cost \in Costs, tokens \in Tokens,
          storeFails \in BOOLEAN :
          /\ SumCounts(ledger) < MaxRequests
          /\ TrackUsage(p, cost, tokens, storeFails)
          /\ UNCHANGED limHist /\ LimiterIdle
    \/ TickDay /\ UNCHANGED limHist /\ LimiterIdle

SpecTiers == InitTiers /\ [][NextTiers]_vars

(***************************************************************************)
(* The three tiers call by call with limits of zero and one.               *)
(***************************************************************************)
InitLimits ==
    /\ now = 0
    /\ CacheSingleton
    /\ HistInit
    /\ LimiterInit
    /\ session_limit \in ZeroLimits
    /\ daily_limit \in ZeroLimits
    /\ monthly_limit \in ZeroLimits
    /\ LimHistInit

SpecLimits == InitLimits /\ [][NextTiers]_vars

(***************************************************************************)
(* One session served in sequence with no store: every allowed check is    *)
(* followed by one record_request, all within one hour; checks counts the  *)
(* checks made and recorded the requests recorded.                         *)
(***************************************************************************)
ProtocolLimits == {1, 2, 101}

Pending == lret.op = "check_limits" /\ lret.allowed

InitSession ==
    /\ now = 0
    /\ CacheSingleton
    /\ HistInit
    /\ LimiterInit
    /\ session_limit \in ProtocolLimits
    /\ daily_limit = RateLimitDaily
    /\ monthly_limit = RateLimitMonthly
    /\ LimHistInit

NextSession ==
    \/ /\ ~Pending
       /\ checks <= session_limit
       /\ CheckLimits("s1", "p1", "none")
       /\ checks' = checks + 1
       /\ UNCHANGED <<verdict, recorded, inflight>> /\ LimiterIdle
    \/ \E cost \in Costs :
          /\ Pending
          /\ RecordRequest("s1", cost)
          /\ recorded' = recorded + 1
          /\ UNCHANGED <<verdict, checks, inflight>> /\ LimiterIdle
    \/ TickHour /\ UNCHANGED limHist /\ LimiterIdle

SpecSession == InitSession /\ [][NextSession]_vars


(***************************************************************************)
(* The housekeeping of the session table: check_limits and record_request  *)
(* of two sessions with no store, and a clock that steps by half hours;    *)
(* lastSeen records, per session, the time of its last call.               *)
(***************************************************************************)
InitCleanup ==
    /\ now = 0
    /\ CacheSingleton
    /\ HistInit
    /\ LimiterInit
    /\ session_limit \in SessionLimits
    /\ daily_limit = RateLimitDaily
    /\ monthly_limit = RateLimitMonthly
    /\ LimHistInit

Seen(s) == lastSeen' = [lastSeen EXCEPT ![s] = now]

CleanupIdle == UNCHANGED <<cacheVars, cacheHist, thrVars, chatVars, limHist>>

NextCleanup ==
    \/ \E s \in Sessions :
          CheckLimits(s, "p1", "none") /\ Seen(s) /\ CleanupIdle
    \/ \E s \in Sessions, cost \in Costs :
          /\ Len(Window(session_requests, s)) < MaxWindow
          /\ RecordRequest(s, cost)
          /\ Seen(s)
          /\ CleanupIdle
    \/ TickHalfHour /\ UNCHANGED seenHist /\ CleanupIdle

SpecCleanup == InitCleanup /\ [][NextCleanup]_vars

(***************************************************************************)
(* The session table call by call: check_limits and record_request of two  *)
(* sessions with no store, costs of two sizes, and a clock whose step is   *)
(* not a whole number of minutes.  Session s1 starts new or with a backlog *)
(* of requests recorded at time 0 that is one short of the deque's cap;    *)
(* recorded counts the record_request calls made since.                    *)
(***************************************************************************)
Stride == WindowSecs \div 4 + 100

RecordCosts == {2, 3}

Backlog == [i \in 1..(DequeMaxLen - 1) |-> Request(0, 2)]

InitStats ==
    /\ now = 0
    /\ CacheSingleton
    /\ HistInit
    /\ \/ /\ session_requests = [s \in {} |-> <<>>]
          /\ session_costs = [s \in {} |-> 0]
       \/ /\ session_requests = [s \in {"s1"} |-> Backlog]
          /\ session_costs = [s \in {"s1"} |-> 2 * Len(Backlog)]
    /\ last_cleanup = now
    /\ ledger = <<>>
    /\ lret = LimiterCall("init")
    /\ session_limit \in SessionLimits
    /\ daily_limit = RateLimitDaily
    /\ monthly_limit = RateLimitMonthly
    /\ LimHistInit

TickStride ==
    /\ now < MaxStrides * Stride
    /\ Pass(Stride)

NextStats ==
    \/ \E s \in Sessions :
          CheckLimits(s, "p1", "none") /\ UNCHANGED limHist /\ LimiterIdle
    \/ \E s \in Sessions, cost \in RecordCosts :
          /\ recorded < MaxRecords
          /\ RecordRequest(s, cost)
          /\ recorded' = recorded + 1
          /\ UNCHANGED <<verdict, checks, inflight>>
          /\ LimiterIdle
    \/ TickStride /\ UNCHANGED limHist /\ LimiterIdle

SpecStats == InitStats /\ [][NextStats]_vars

(***************************************************************************)
(* The chat endpoint: two handlers of one session and one portfolio, two   *)
(* queries, a cache of one entry that is enabled or not and keeps entries *)
(* for half an hour, a store that works or fails, and a clock that steps  *)
(* by one hour.                                                            *)
(***************************************************************************)
ChatStops == {"never", "after_process_message", "after_record_request"}

InitChat ==
    /\ now = 0
    /\ enabled \in BOOLEAN
    /\ max_size = 1
    /\ default_ttl = HalfHour
    /\ cache = <<>>
    /\ stats = [hits |-> 0, misses |-> 0, evictions |-> 0, expired |-> 0]
    /\ cret = Call("init", NoneVal)
    /\ touched = <<>>
    /\ HistInit
    /\ LimiterInit
    /\ session_limit \in SessionLimits
    /\ daily_limit \in DailyLimits
    /\ monthly_limit \in MonthlyLimits
    /\ LimHistInit

ChatIdle == UNCHANGED <<cacheHist, thrVars, seenHist>>

NextChat ==
    \/ \E h \in Handlers, q \in Queries, m \in {"ok", "fail_both"} :
          ChatBegin(h, "s1", "p1", q, m) /\ UNCHANGED cacheVars /\ ChatIdle
    \/ \E h \in Handlers, gen \in Generations, cost \in Costs,
          tokens \in Tokens, stop \in ChatStops :
          ChatWork(h, gen, cost, tokens, stop) /\ ChatIdle
    \/ \E h \in Handlers, storeFails \in BOOLEAN :
          ChatTrack(h, storeFails) /\ UNCHANGED cacheVars /\ ChatIdle
    \/ \E h \in Handlers, applied \in BOOLEAN :
          ChatAbandon(h, applied) /\ UNCHANGED cacheVars /\ ChatIdle
    \/ TickHour /\ UNCHANGED <<cacheVars, limHist, chatVars>> /\ ChatIdle

SpecChat == InitChat /\ [][NextChat]_vars

(***************************************************************************)
(* The chat endpoint with limits that let each tier reject: of the daily   *)
(* and the monthly limit one is 1 and the other 3, the session limit is 1  *)
(* or 2.                                                                   *)
(***************************************************************************)
LedgerLimits == {1, 3}

InitReject ==
    /\ now = 0
    /\ enabled = TRUE
    /\ max_size = 1
    /\ default_ttl = HalfHour
    /\ cache = <<>>
    /\ stats = [hits |-> 0, misses |-> 0, evictions |-> 0, expired |-> 0]
    /\ cret = Call("init", NoneVal)
    /\ touched = <<>>
    /\ HistInit
    /\ LimiterInit
    /\ session_limit \in SessionLimits
    /\ daily_limit \in LedgerLimits
    /\ monthly_limit \in LedgerLimits \ {daily_limit}
    /\ LimHistInit

SpecReject == InitReject /\ [][NextChat]_vars

(***************************************************************************)
(* The chat endpoint with a store that never fails and handlers that run   *)
(* to their end: check_limits, the work, track_usage.                      *)
(***************************************************************************)
NextDaily ==
    \/ \E h \in Handlers, q \in Queries :
          ChatBegin(h, "s1", "p1", q, "ok") /\ UNCHANGED cacheVars /\ ChatIdle
    \/ \E h \in Handlers, gen \in Generations, cost \in Costs,
          tokens \in Tokens :
          ChatWork(h, gen, cost, tokens, "never") /\ ChatIdle
    \/ \E h \in Handlers :
          ChatTrack(h, FALSE) /\ UNCHANGED cacheVars /\ ChatIdle
    \/ TickHour /\ UNCHANGED <<cacheVars, limHist, chatVars>> /\ ChatIdle

SpecDaily == InitReject /\ [][NextDaily]_vars

(***************************************************************************)
(* process_message called for portfolios and queries whose strings contain *)
(* ':'.  The handler keeps the request and its result; everSet records the *)
(* (portfolio_id, query) pairs whose response was generated and stored.    *)
(***************************************************************************)
ChatPortfolios == {"p", "p:q"}

ChatQueries == {"r", "q:r"}

Ask(h, p, q, gen, cost, tokens) ==
    LET pm == ProcessMessage(CacheState(cache, stats, touched), enabled,
                             max_size, default_ttl, p, q, gen, cost, tokens,
                             now)
    IN  /\ Events(stats) < MaxEvents
        /\ cache' = pm.cache
        /\ stats' = pm.stats
        /\ touched' = pm.touched
        /\ cret' = Call("process_message", pm.ret)
        /\ handlers' = [handlers EXCEPT ![h] =
                            [HandlerIdle("200") EXCEPT !.portfolio = p,
                                                       !.query = q,
                                                       !.result = pm.ret]]
        /\ everSet' = IF enabled /\ ~pm.hit /\ pm.ret.success
                      THEN everSet \cup {<<p, q>>}
                      ELSE everSet
        /\ UNCHANGED <<now, enabled, max_size, default_ttl, dropped, lastSet,
                       served>>

InitKeys ==
    /\ now = 0
    /\ enabled \in BOOLEAN
    /\ max_size \in CacheSizes
    /\ default_ttl = HalfHour
    /\ cache = <<>>
    /\ stats = [hits |-> 0, misses |-> 0, evictions |-> 0, expired |-> 0]
    /\ cret = Call("init", NoneVal)
    /\ touched = <<>>
    /\ HistInit
    /\ LimiterSingleton
    /\ LimHistInit

NextKeys ==
    \/ \E p \in ChatPortfolios, q \in ChatQueries, gen \in Generations,
          cost \in Costs, tokens \in Tokens :
          /\ Ask("h1", p, q, gen, cost, tokens)
          /\ UNCHANGED <<limVars, limHist, thrVars, seenHist>>
    \/ /\ TickHour
       /\ UNCHANGED <<cacheVars, cacheHist, limHist, thrVars, chatVars,
                      seenHist>>

SpecKeys == InitKeys /\ [][NextKeys]_vars

(***************************************************************************)
(*                        Properties of ResponseCache                      *)
(***************************************************************************)
AllLive(c, t) == \A i \in 1..Len(c) : ~IsExpired(c[i], t)

(* C4: with max_size = N and N live entries stored, set of a new key       *)
(* removes exactly one entry, the least recently touched one (a successful *)
(* get and a set are touches); every other entry stays retrievable and the *)
(* new entry is most-recently-used.                                        *)
C4_LruEviction ==
    [][\A ns \in Namespaces, id \in Identifiers, v \in Values, ttl \in TtlArgs :
         LET k == GenerateKey(ns, id) IN
         (/\ cret'.op = "set"
          /\ enabled
          /\ Len(cache) = max_size
          /\ AllLive(cache, now)
          /\ ~HasKey(cache, k)
          /\ Set(ns, id, v, ttl))
         => /\ KeysOf(cache') = (KeysOf(cache) \ {touched[1]}) \cup {k}
            /\ Len(cache') = max_size
            /\ \A j \in KeysOf(cache) \ {touched[1]} :
                  /\ GetResult(cache', j, now') = EntryOf(cache, j).value
                  /\ GetResult(cache', j, now') # NoneVal
            /\ cache'[Len(cache')].key = k
            /\ GetResult(cache', k, now') = v
            /\ stats'.evictions = stats.evictions + 1]_vars

\* a full cache of two entries whose older entry was read after the newer
\* one was stored has just evicted on a set
C4_Witness ==
    /\ max_size = 2
    /\ Len(cache) = 2
    /\ stats.evictions = 1
    /\ stats.hits = 1
    /\ cret.op = "set"

(* C5: after any sequence of set, get, invalidate, clear and               *)
(* cleanup_expired calls the number of stored entries is at most max_size. *)
C5_SizeBounded == Len(cache) <= max_size

C5_Witness == Len(cache) = max_size /\ stats.evictions > 0 /\ cret.op = "set"

(* C7: on an enabled cache set(namespace, identifier, value) followed      *)
(* immediately by get(namespace, identifier) returns that value, whatever  *)
(* the cache held before.                                                  *)
C7_SetThenGet ==
    [][\A ns \in Namespaces, id \in Identifiers, v \in Values, ttl \in TtlArgs :
         (cret'.op = "set" /\ enabled /\ Set(ns, id, v, ttl))
         => GetResult(cache', GenerateKey(ns, id), now') = v]_vars

\* a set has just overwritten, in a full cache, a key that was stored
C7_Witness ==
    /\ cret.op = "set"
    /\ Len(cache) = max_size
    /\ stats.hits > 0
    /\ cache[Len(cache)].value = "v2"

(* C6: after set(ns, id, v, ttl=t), a get of that key made more than t     *)
(* seconds later (no set of the key in between) returns absent, removes    *)
(* the entry and adds exactly 1 to the expired and to the miss counter; a  *)
(* get made before t seconds have passed returns v.                        *)
(* As stated here it fails when the entry was removed in between.         *)
C6_Original ==
    [][\A ns \in Namespaces, id \in Identifiers :
         LET k == GenerateKey(ns, id) IN
         (/\ cret'.op = "get"
          /\ enabled
          /\ lastSet[k] # NeverSet
          /\ Get(ns, id))
         => /\ now > lastSet[k].deadline
                 => /\ cret'.ret = NoneVal
                    /\ ~HasKey(cache', k)
                    /\ stats'.expired = stats.expired + 1
                    /\ stats'.misses = stats.misses + 1
            /\ now < lastSet[k].deadline
                 => cret'.ret = lastSet[k].value]_vars

(* C6, for an entry that is still stored at the get: more than t seconds   *)
(* after its set the get returns absent, removes it and adds 1 to expired  *)
(* and to misses; before t seconds have passed the get returns v.          *)
C6_TtlExpiry ==
    [][\A ns \in Namespaces, id \in Identifiers :
         LET k == GenerateKey(ns, id) IN
         (/\ cret'.op = "get"
          /\ lastSet[k] # NeverSet
          /\ HasKey(cache, k)
          /\ Get(ns, id))
         => /\ now > lastSet[k].deadline
                 => /\ cret'.ret = NoneVal
                    /\ ~HasKey(cache', k)
                    /\ stats'.expired = stats.expired + 1
                    /\ stats'.misses = stats.misses + 1
            /\ now < lastSet[k].deadline
                 => cret'.ret = lastSet[k].value]_vars

\* a get has just found an entry past its deadline and removed it
C6_Witness ==
    /\ cret.op = "get"
    /\ cret.ret = NoneVal
    /\ stats.expired = 1
    /\ stats.misses = 1
    /\ \E k \in AllKeys :
          lastSet[k] # NeverSet /\ now > lastSet[k].deadline /\ ~HasKey(cache, k)

(* C8: get returns absent for every (namespace, identifier) that was never *)
(* set, and for every key after invalidate of that key or after clear,     *)
(* until the key is set again; invalidate of one key returns true exactly  *)
(* when the key was stored and leaves every other key retrievable.         *)
C8_Original ==
    [][\A ns \in Namespaces, id \in Identifiers :
         LET k == GenerateKey(ns, id) IN
         /\ (cret'.op = "get" /\ Get(ns, id))
               => ((<<ns, id>> \notin everSet \/ k \in dropped) => cret'.ret = NoneVal)
         /\ (cret'.op = "invalidate" /\ Invalidate(ns, id))
               => /\ cret'.ret = HasKey(cache, k)
                  /\ \A j \in KeysOf(cache) \ {k} :
                        GetResult(cache', j, now') = GetResult(cache, j, now)]_vars

(***************************************************************************)
(*                         Properties of CostLimiter                       *)
(***************************************************************************)
\* the requests of a window that are at most one hour old at time t
Young(w, t) == {i \in 1..Len(w) : t - w[i].t <= WindowSecs}

\* the tiers that are violated before a check, read off the state
SessionViolated(s) ==
    Cardinality(Young(Window(session_requests, s), now)) >= session_limit

DailyViolated(p) ==
    \E i \in 1..Len(ledger) :
        /\ ledger[i].portfolio_id = p
        /\ ledger[i].date = Today(now)
        /\ ledger[i].request_count >= daily_limit

RECURSIVE CountOver(_)
CountOver(S) ==
    IF S = {} THEN 0
    ELSE LET i == CHOOSE x \in S : TRUE
         IN  ledger[i].request_count + CountOver(S \ {i})

MonthlyViolated(p) ==
    CountOver({i \in 1..Len(ledger) :
                  /\ ledger[i].portfolio_id = p
                  /\ ledger[i].date >= MonthStart(now)}) >= monthly_limit

\* the first violated tier that a check with store behaviour m can see
FirstViolated(s, p, m) ==
    IF SessionViolated(s) THEN "session"
    ELSE IF m # "none" /\ ~FailsDaily(m) /\ DailyViolated(p) THEN "daily"
    ELSE IF m # "none" /\ ~FailsMonthly(m) /\ MonthlyViolated(p) THEN "monthly"
    ELSE NoneVal

(* C1: one session, session_limit = L >= 1, every allowed check followed   *)
(* by one record_request, all calls within one hour: each of the first L   *)
(* checks is allowed and check number L + 1 is rejected with               *)
(* tier = "session" and limit = L.                                         *)
C1_Original ==
    lret.op = "check_limits" =>
        /\ checks <= session_limit => lret.allowed
        /\ checks = session_limit + 1 =>
              /\ ~lret.allowed
              /\ lret.tier = "session"
              /\ lret.limit = session_limit

(* C2: check_limits evaluates session, daily, monthly in this order and    *)
(* stops at the first violated tier: the decision names that tier, the     *)
(* store is not read when the session tier is violated, and the monthly    *)
(* aggregate is not queried when the daily tier is violated.               *)
C2_TierOrder ==
    [][lret'.op = "check_limits" =>
          \A p \in Portfolios, m \in DbModes :
              CheckLimits("s1", p, m) =>
                  LET first == FirstViolated("s1", p, m)
                  IN  /\ lret'.tier = first
                      /\ lret'.allowed = (first = NoneVal)
                      /\ first = "session" => lret'.reads = <<>>
                      /\ first = "daily" => lret'.reads = <<"find_one">>
                      /\ (first \in {"monthly", NoneVal} /\ m # "none") =>
                            lret'.reads = <<"find_one", "aggregate">>]_vars

C2_Witness ==
    /\ lret.op = "check_limits"
    /\ lret.tier = "daily"
    /\ lret.reads = <<"find_one">>
    /\ \E p \in Portfolios : DailyViolated(p) /\ MonthlyViolated(p)

(* C3: a store that raises during the daily or the monthly check does not  *)
(* make check_limits raise; when the session tier passes and no other      *)
(* tier is violated the decision is allowed = true.                        *)
C3_FailOpen ==
    [][lret'.op = "check_limits" =>
          \A p \in Portfolios,
             m \in {"fail_daily", "fail_monthly", "fail_both"} :
              CheckLimits("s1", p, m) =>
                  /\ ~lret'.raised
                  /\ (/\ ~SessionViolated("s1")
                      /\ FailsDaily(m) \/ ~DailyViolated(p)
                      /\ FailsMonthly(m) \/ ~MonthlyViolated(p)) =>
                        (lret'.allowed /\ lret'.tier = NoneVal)]_vars

C3_Witness ==
    /\ lret.op = "check_limits"
    /\ lret.allowed
    /\ lret.reads = <<"find_one", "aggregate">>
    /\ \E p \in Portfolios : DailyViolated(p)

(* C9: a session rejected by the session tier is admitted by the first     *)
(* check made after its oldest stored request is more than 3600 s old;     *)
(* while session_limit of its stored requests are at most 3600 s old it    *)
(* stays rejected.                                                         *)
C9_Original ==
    [][\A s \in Sessions :
          (lret'.op = "check_limits" /\ ChatCheck(s, "p1", "ok")) =>
              /\ (/\ verdict[s] = "rejected"
                  /\ Window(session_requests, s) # <<>>
                  /\ now - Window(session_requests, s)[1].t > WindowSecs) =>
                    lret'.allowed
              /\ SessionViolated(s) =>
                    (~lret'.allowed /\ lret'.tier = "session")]_vars

\* what one track_usage call that reaches the store does to the ledger
Tracked(p, cost, tokens) ==
    /\ \A q \in Portfolios, d \in 0..Today(now) :
          Cardinality(Matches(ledger', q, d)) <= 1
    /\ Matches(ledger, p, Today(now)) = {} =>
          /\ Len(ledger') = Len(ledger) + 1
          /\ Cardinality(Matches(ledger', p, Today(now))) = 1
          /\ FindOne(ledger', p, Today(now)).request_count = 1
          /\ FindOne(ledger', p, Today(now)).total_cost = cost
          /\ FindOne(ledger', p, Today(now)).total_tokens = tokens
          /\ \A i \in 1..Len(ledger) : ledger'[i] = ledger[i]
    /\ Matches(ledger, p, Today(now)) # {} =>
          /\ Len(ledger') = Len(ledger)
          /\ FindOne(ledger', p, Today(now)).request_count =
                 FindOne(ledger, p, Today(now)).request_count + 1
          /\ FindOne(ledger', p, Today(now)).total_cost =
                 FindOne(ledger, p, Today(now)).total_cost + cost
          /\ FindOne(ledger', p, Today(now)).total_tokens =
                 FindOne(ledger, p, Today(now)).total_tokens + tokens
          /\ \A i \in 1..Len(ledger) :
                 i \notin Matches(ledger, p, Today(now)) =>
                     ledger'[i] = ledger[i]

(* C10: track_usage on a (portfolio_id, today) pair without a record       *)
(* creates exactly one record with request_count = 1; each further         *)
(* track_usage of the day adds 1 to request_count and adds cost and        *)
(* tokens to the totals; there is never more than one record per           *)
(* (portfolio_id, date).  As stated here, for every call, it fails when    *)
(* the store call fails: track_usage then changes nothing.                 *)
C10_Original ==
    [][\A p \in Portfolios, cost \in Costs, tokens \in Tokens,
          storeFails \in BOOLEAN :
          (lret'.op = "track_usage"
           /\ TrackUsage(p, cost, tokens, storeFails)) =>
              Tracked(p, cost, tokens)]_vars

(* C10, for the calls whose store call succeeds: a pair without a record   *)
(* gets exactly one record with request_count = 1, further calls add 1,    *)
(* cost and tokens to it, and no pair ever has more than one record.       *)
C10_Upsert ==
    [][\A p \in Portfolios, cost \in Costs, tokens \in Tokens :
          (lret'.op = "track_usage"
           /\ TrackUsage(p, cost, tokens, FALSE)) =>
              Tracked(p, cost, tokens)]_vars

C10_Witness ==
    /\ lret.op = "track_usage"
    /\ Len(ledger) = 2
    /\ \E i \in 1..Len(ledger) :
          /\ ledger[i].request_count = 2
          /\ ledger[i].total_cost = 4
          /\ ledger[i].total_tokens = 10

\* today's request_count of a portfolio in the ledger, 0 without a record
TodayCount(p) ==
    CountOver({i \in 1..Len(ledger) :
                  /\ ledger[i].portfolio_id = p
                  /\ ledger[i].date = Today(now)})

(* C11: with a working store and the session tier passing, check_limits    *)
(* rejects with tier = "daily", limit = daily_limit and current = today's  *)
(* request_count exactly when today's request_count of the portfolio is    *)
(* at least daily_limit; a missing record counts as 0.                     *)
C11_DailyTier ==
    [][lret'.op = "check_limits" =>
          \A p \in Portfolios :
              (~SessionViolated("s1") /\ CheckLimits("s1", p, "ok")) =>
                  /\ (lret'.tier = "daily") = (TodayCount(p) >= daily_limit)
                  /\ lret'.tier = "daily" =>
                        /\ ~lret'.allowed
                        /\ lret'.limit = daily_limit
                        /\ lret'.current = TodayCount(p)
                  /\ (Matches(ledger, p, Today(now)) = {} /\ daily_limit > 0)
                        => lret'.tier # "daily"]_vars

C11_Witness ==
    /\ lret.op = "check_limits"
    /\ lret.tier = "daily"
    /\ lret.limit = daily_limit
    /\ lret.current = daily_limit
    /\ Len(ledger) = 1

\* the portfolio's request_count summed over the current month
MonthCount(p) ==
    CountOver({i \in 1..Len(ledger) :
                  /\ ledger[i].portfolio_id = p
                  /\ ledger[i].date >=
                         Today(now) - (Today(now) % DaysPerMonth)})

(* C12: with the session and daily tiers passing, check_limits rejects     *)
(* with tier = "monthly" exactly when the portfolio's request_count summed *)
(* over its records dated on or after the first day of the current month   *)
(* is at least monthly_limit; records of earlier months and of other       *)
(* portfolios are not counted.                                             *)
C12_MonthlyTier ==
    [][lret'.op = "check_limits" =>
          \A p \in Portfolios, m \in {"ok", "fail_daily"} :
              (/\ ~SessionViolated("s1")
               /\ m = "fail_daily" \/ TodayCount(p) < daily_limit
               /\ CheckLimits("s1", p, m)) =>
                  /\ (lret'.tier = "monthly") = (MonthCount(p) >= monthly_limit)
                  /\ lret'.tier = "monthly" =>
                        /\ ~lret'.allowed
                        /\ lret'.limit = monthly_limit
                        /\ lret'.current = MonthCount(p)
                  /\ lret'.tier # "monthly" => lret'.allowed]_vars

C12_Witness ==
    /\ lret.op = "check_limits"
    /\ lret.tier = "monthly"
    /\ lret.current = monthly_limit
    /\ \A i \in 1..Len(ledger) :
          ledger[i].date = Today(now) => ledger[i].request_count < daily_limit

(* C13: without a storage collaborator check_limits consults neither the   *)
(* daily nor the monthly tier: it returns allowed = true, tier = None      *)
(* exactly when the session's number of requests in the trailing hour is   *)
(* below session_limit.  Here every request was recorded within the hour.  *)
C13_Original ==
    lret.op = "check_limits" =>
        /\ lret.reads = <<>>
        /\ (lret.allowed /\ lret.tier = NoneVal) = (recorded < session_limit)

(* C14: with enabled = false, after any sequence of set, get, invalidate   *)
(* and cleanup_expired calls, every get returns absent, the store holds    *)
(* no entries, the hit, miss, eviction and expired counters are 0 and      *)
(* get_stats reports enabled = false.                                      *)
C14_DisabledInert ==
    ~enabled =>
        /\ cret.op = "get" => cret.ret = NoneVal
        /\ cache = <<>>
        /\ GetStats.size = 0
        /\ GetStats.hits = 0 /\ GetStats.misses = 0
        /\ GetStats.evictions = 0 /\ GetStats.expired = 0
        /\ GetStats.enabled = FALSE

C14_Witness ==
    /\ ~enabled
    /\ everSet = Namespaces \X Identifiers
    /\ cret = Call("get", NoneVal)

\* hr is 100 * h / (h + m) to the nearest hundredth, in hundredths
IsRate(hr, h, m) ==
    IF h + m = 0 THEN hr = 0
    ELSE /\ 2 * (hr * (h + m) - 10000 * h) <= h + m
         /\ 2 * (10000 * h - hr * (h + m)) <= h + m

(* C15: with no expiry involved, get_stats counts the gets that hit and    *)
(* the gets that missed: a get returning a value adds 1 to hits, a get     *)
(* returning absent adds 1 to misses, set, invalidate and clear change     *)
(* neither; total_requests = hits + misses, hit_rate is 100 * hits /       *)
(* total_requests rounded to two decimals and 0 without requests.          *)
C15_HitMissStats ==
    /\ GetStats.hits = 0 /\ GetStats.misses = 0
    /\ GetStats.total_requests = 0 /\ GetStats.hit_rate = 0
    /\ [][enabled =>
             /\ (cret'.op = "get" /\ cret'.ret # NoneVal) =>
                   /\ GetStats'.hits = GetStats.hits + 1
                   /\ GetStats'.misses = GetStats.misses
             /\ (cret'.op = "get" /\ cret'.ret = NoneVal) =>
                   /\ GetStats'.hits = GetStats.hits
                   /\ GetStats'.misses = GetStats.misses + 1
             /\ cret'.op # "get" =>
                   /\ GetStats'.hits = GetStats.hits
                   /\ GetStats'.misses = GetStats.misses
             /\ GetStats'.total_requests = GetStats'.hits + GetStats'.misses
             /\ IsRate(GetStats'.hit_rate, GetStats'.hits,
                       GetStats'.misses)]_vars

C15_Witness ==
    /\ enabled
    /\ GetStats.hits = 1
    /\ GetStats.misses = 2
    /\ GetStats.hit_rate = 3333

\* the stored keys whose entry was set under namespace ns and under no
\* other namespace
SetUnder(ns) ==
    {k \in KeysOf(cache) \ dropped :
        /\ \E id \in Identifiers :
              <<ns, id>> \in everSet /\ k = GenerateKey(ns, id)
        /\ \A other \in Namespaces \ {ns}, id \in Identifiers :
              <<other, id>> \in everSet => k # GenerateKey(other, id)}

(* C16: invalidate_namespace(ns) removes every stored entry that was set   *)
(* under namespace ns, leaves the entries of every other namespace in      *)
(* place, and returns the number of entries it removed.                    *)
C16_Original ==
    [][\A ns \in Namespaces :
          (/\ cret'.op = "invalidate_namespace"
           /\ enabled
           /\ InvalidateNamespace(ns)) =>
              /\ SetUnder(ns) \cap KeysOf(cache') = {}
              /\ \A other \in Namespaces \ {ns} :
                    SetUnder(other) \subseteq KeysOf(cache')
              /\ cret'.ret = Len(cache) - Len(cache')]_vars

(* C17: distinct (namespace, identifier) pairs get distinct cache keys, so *)
(* a value set under one pair is never returned by get for another pair;   *)
(* namespace "a:b" with identifier "c" and namespace "a" with identifier   *)
(* "b:c" are separate entries.                                             *)
C17_Original ==
    [][\A ns \in Namespaces, id \in Identifiers :
          (/\ cret'.op = "get"
           /\ cret'.ret # NoneVal
           /\ Get(ns, id)) =>
              /\ <<ns, id>> \in everSet
              /\ \A ns2 \in Namespaces, id2 \in Identifiers :
                    <<ns2, id2>> # <<ns, id>> =>
                        GenerateKey(ns2, id2) # GenerateKey(ns, id)]_vars

(* C18: when chat handlers of one session interleave (check_limits, the    *)
(* work, then record_request), the number of requests recorded for the     *)
(* session within the trailing hour never exceeds session_limit.           *)
C18_Original ==
    \A s \in Sessions :
        Cardinality(Young(Window(session_requests, s), now)) <= session_limit

(* C19: when several threads call set on distinct new keys at the same     *)
(* time and the steps of set interleave, the number of stored entries      *)
(* never exceeds max_size.                                                 *)
C19_Original == enabled => Len(cache) <= max_size

(* C20: check_limits always returns a decision and never raises, for every *)
(* session state, every non-negative session_limit, daily_limit and        *)
(* monthly_limit, and every outcome of the store.                          *)
C20_Original == lret.op = "check_limits" => ~lret.raised


(***************************************************************************)
(*                      Properties of the chat endpoint                    *)
(***************************************************************************)
(* C21: when the ledger store fails during track_usage the failure is      *)
(* swallowed: track_usage returns normally, the chat request still returns *)
(* its response, and the session-window entry already recorded for the     *)
(* request is kept.                                                        *)
C21_FailureSwallowed ==
    [][\A h \in Handlers :
          (lret'.op = "track_usage" /\ ChatTrack(h, TRUE)) =>
              /\ ~lret'.raised
              /\ handlers'[h].response = "200"
              /\ handlers'[h].result = handlers[h].result
              /\ session_requests' = session_requests
              /\ \E i \in 1..Len(Window(session_requests', handlers[h].session)) :
                    Window(session_requests', handlers[h].session)[i].cost =
                        handlers[h].result.cost]_vars

\* a request has been answered although its ledger write was lost
C21_Witness ==
    /\ lret.op = "track_usage"
    /\ \E h \in Handlers : handlers[h].response = "200"
    /\ ledger = <<>>
    /\ recorded = 1
    /\ Len(Window(session_requests, "s1")) = 1


(* C22: constructing a ResponseCache with max_size <= 0 is refused, so no  *)
(* cache with a non-positive max_size ever serves a get or a set.          *)
C22_Original == cret.op \in {"get", "set"} => max_size > 0


\* the request_count of portfolio p on day d in ledger l
DayCount(l, p, d) ==
    SumCounts(SelectSeq(l, LAMBDA doc : doc.portfolio_id = p /\ doc.date = d))

\* what the handler does once process_message has returned: one
\* record_request for its session, and track_usage is called
Recorded(h) ==
    /\ recorded' = recorded + 1
    /\ Len(Window(session_requests', handlers[h].session)) =
           Len(Window(session_requests, handlers[h].session)) + 1
    /\ handlers'[h].pc = "tracking"

(* C23: every chat request admitted by check_limits whose processing       *)
(* returns (fresh, from the cache, or failed with success = false) is      *)
(* followed by exactly one record_request for its session and exactly one  *)
(* track_usage call that adds 1 to the day's request_count.  As stated     *)
(* here it fails when the store call of track_usage fails.                 *)
C23_Original ==
    [][\A h \in Handlers :
          /\ (/\ cret'.op = "process_message"
              /\ \E gen \in Generations, cost \in Costs, tokens \in Tokens :
                    ChatWork(h, gen, cost, tokens, "never")) => Recorded(h)
          /\ (/\ lret'.op = "track_usage"
              /\ \E storeFails \in BOOLEAN : ChatTrack(h, storeFails)) =>
                 /\ handlers'[h].pc = "idle"
                 /\ DayCount(ledger', handlers[h].portfolio, Today(now)) =
                        DayCount(ledger, handlers[h].portfolio, Today(now)) + 1]_vars

(* C23, with the store taken into account: the request is followed by      *)
(* exactly one record_request and one track_usage call; the call adds 1    *)
(* to the day's request_count when its store call succeeds and leaves the  *)
(* ledger as it was when the store call fails.                             *)
C23_RecordAndTrack ==
    [][\A h \in Handlers :
          /\ (/\ cret'.op = "process_message"
              /\ \E gen \in Generations, cost \in Costs, tokens \in Tokens :
                    ChatWork(h, gen, cost, tokens, "never")) => Recorded(h)
          /\ (lret'.op = "track_usage" /\ ChatTrack(h, FALSE)) =>
                 /\ handlers'[h].pc = "idle"
                 /\ DayCount(ledger', handlers[h].portfolio, Today(now)) =
                        DayCount(ledger, handlers[h].portfolio, Today(now)) + 1
          /\ (lret'.op = "track_usage" /\ ChatTrack(h, TRUE)) =>
                 /\ handlers'[h].pc = "idle"
                 /\ ledger' = ledger]_vars

\* a request served from the cache has been recorded and tracked as the
\* second request of the day
C23_Witness ==
    /\ lret.op = "track_usage"
    /\ \E h \in Handlers :
          /\ handlers[h].response = "200"
          /\ handlers[h].result.marked
    /\ recorded = 2
    /\ TodayCount("p1") = 2


\* the structure of the cache: no more entries than max_size, one entry
\* per key, counters that count
CacheValid ==
    /\ Len(cache) <= max_size
    /\ Cardinality(KeysOf(cache)) = Len(cache)
    /\ \A f \in DOMAIN stats : stats[f] >= 0

\* the structure of the limiter: windows in order of time and within the
\* cap of the deque, one ledger record per (portfolio_id, date)
LimiterValid ==
    /\ \A s \in DOMAIN session_requests :
          /\ Len(session_requests[s]) <= DequeMaxLen
          /\ \A i, j \in 1..Len(session_requests[s]) :
                i < j => session_requests[s][i].t <= session_requests[s][j].t
    /\ \A i, j \in 1..Len(ledger) :
          (/\ ledger[i].portfolio_id = ledger[j].portfolio_id
           /\ ledger[i].date = ledger[j].date) => i = j
    /\ \A i \in 1..Len(ledger) : ledger[i].request_count >= 1

(* C24: when a chat request is abandoned between two of its steps (after   *)
(* check_limits, after the cache is populated, after record_request, or    *)
(* before track_usage completes), the cache and the limiter still satisfy  *)
(* their invariants, and usage is counted at most as high as the requests  *)
(* served: the session windows and the ledger never count more requests    *)
(* than process_message has answered.                                      *)
C24_AbandonSafe ==
    /\ CacheValid
    /\ LimiterValid
    /\ recorded <= served
    /\ SumCounts(ledger) <= recorded
    /\ \A s \in DOMAIN session_requests :
          Len(session_requests[s]) <= recorded

\* two requests were answered, the second from the cache; one handler was
\* abandoned and the ledger counts fewer requests than were served
C24_Witness ==
    /\ \E h \in Handlers : handlers[h].response = "abandoned"
    /\ served = 2
    /\ stats.hits = 1
    /\ recorded = 1
    /\ SumCounts(ledger) = 0


(***************************************************************************)
(*                  Properties of the session housekeeping                 *)
(***************************************************************************)
\* a cleanup pass runs in a check_limits call made at this time
PassDue == now - last_cleanup >= CleanupInterval

(* C25: after a cleanup pass has run, no tracked session remains that has  *)
(* been idle for more than 3600 s, sessions that were only checked and     *)
(* sessions whose window was emptied by trimming included.                 *)
C25_Original ==
    [][\A s \in Sessions :
          (/\ lret'.op = "check_limits"
           /\ PassDue
           /\ CheckLimits(s, "p1", "none")) =>
              \A x \in DOMAIN session_requests' :
                  now' - lastSeen'[x] <= WindowSecs]_vars

\* the session tier of session s decided on the table as it is, with no
\* cleanup pass before
Undisturbed(s) ==
    LET w == Window(session_requests, s)
        young == SelectSeq(w, LAMBDA r : now - r.t <= WindowSecs)
    IN  IF Len(young) >= session_limit THEN "session" ELSE NoneVal

(* C26: the cleanup pass never changes an admission decision: check_limits *)
(* returns the same allowed and tier result whether or not the pass        *)
(* removed sessions beforehand.                                            *)
C26_CleanupNeutral ==
    [][\A s \in Sessions :
          (lret'.op = "check_limits" /\ CheckLimits(s, "p1", "none")) =>
              /\ lret'.tier = Undisturbed(s)
              /\ lret'.allowed = (Undisturbed(s) = NoneVal)]_vars

\* a check has just been decided in a call whose cleanup pass removed a
\* session from the table
C26_Witness ==
    /\ lret.op = "check_limits"
    /\ lret.allowed
    /\ last_cleanup = now
    /\ \E s \in Sessions :
          lastSeen[s] # NeverSeen /\ s \notin DOMAIN session_requests

(* C27: a cleanup pass scans and removes sessions only when at least       *)
(* cleanup_interval seconds have passed since the previous pass that ran   *)
(* or since the limiter was constructed; a check_limits call made sooner   *)
(* removes no session, and the time of the last pass is updated only when  *)
(* a pass runs.                                                            *)
C27_CleanupGate ==
    [][LET checking == /\ lret'.op = "check_limits"
                       /\ \E s \in Sessions : CheckLimits(s, "p1", "none")
       IN  /\ (checking /\ PassDue) => last_cleanup' = now
           /\ (~checking \/ ~PassDue) =>
                 /\ last_cleanup' = last_cleanup
                 /\ DOMAIN session_requests \subseteq DOMAIN session_requests'
                 /\ DOMAIN session_costs \subseteq DOMAIN session_costs']_vars

\* a check made half an hour after a pass has left a session in the table
\* whose last request is older than the window
C27_Witness ==
    /\ lret.op = "check_limits"
    /\ last_cleanup > 0
    /\ now - last_cleanup = HalfHour
    /\ \E s \in DOMAIN session_requests :
          /\ session_requests[s] # <<>>
          /\ session_requests[s][Len(session_requests[s])].t < now - WindowSecs


(***************************************************************************)
(*                 Further properties of ResponseCache                     *)
(***************************************************************************)
(* C28: set on a key that is already stored replaces its value, restarts   *)
(* its TTL and makes it most-recently-used, and leaves the number of       *)
(* entries, the eviction counter and every other entry unchanged, also     *)
(* when the store is at max_size.                                          *)
C28_Overwrite ==
    [][(cret'.op = "set" /\ enabled) =>
          \A id \in Identifiers :
             LET k == GenerateKey("a", id) IN
             HasKey(cache, k) =>
                \A v \in {lastSet'[k].value}, ttl \in TtlArgs :
                   Set("a", id, v, ttl) =>
                      /\ EntryOf(cache', k).value = v
                      /\ EntryOf(cache', k).expires_at =
                             now + (IF ttl = NoTtl THEN default_ttl ELSE ttl)
                      /\ cache'[Len(cache')].key = k
                      /\ Len(cache') = Len(cache)
                      /\ stats' = stats
                      /\ SelectSeq(cache', LAMBDA e : e.key # k) =
                             SelectSeq(cache, LAMBDA e : e.key # k)]_vars

\* in a full cache of two entries with nothing evicted, the entry set
\* last carries a TTL of 3 s restarted at the present second, and the
\* other entry is older
C28_Witness ==
    /\ cret.op = "set"
    /\ max_size = 2
    /\ Len(cache) = 2
    /\ stats.evictions = 0
    /\ now = 2
    /\ cache[1].expires_at = 1
    /\ cache[2].expires_at = now + 3
    /\ cache[2].value = "v2"
    /\ lastSet[cache[2].key] = [deadline |-> now + 3, value |-> "v2"]


(* C29: cleanup_expired removes exactly the entries whose expiry time has  *)
(* passed, keeps every live entry in the same relative recency order,      *)
(* returns the number removed, adds that number to the expired counter and *)
(* leaves hits and misses unchanged; an entry removed by the sweep is not  *)
(* counted as expired again by a later get.                                *)
C29_Sweep ==
    [][/\ (cret'.op = "cleanup_expired" /\ CleanupExpired) =>
             LET live == SelectSeq(cache, LAMBDA e : now <= e.expires_at)
             IN  /\ cache' = live
                 /\ cret'.ret = Len(cache) - Len(live)
                 /\ stats'.expired = stats.expired + (Len(cache) - Len(live))
                 /\ stats'.hits = stats.hits
                 /\ stats'.misses = stats.misses
                 /\ stats'.evictions = stats.evictions
       /\ cret'.op = "get" =>
             \A ns \in Namespaces, id \in Identifiers :
                (~HasKey(cache, GenerateKey(ns, id)) /\ Get(ns, id)) =>
                    /\ stats'.expired = stats.expired
                    /\ stats'.misses = stats.misses + 1
                    /\ cret'.ret = NoneVal]_vars

\* a sweep of three entries has just removed the one that had expired and
\* kept the two live ones, the older before the newer
C29_Witness ==
    /\ cret = Call("cleanup_expired", 1)
    /\ stats.expired = 1
    /\ Len(cache) = 2
    /\ stats.evictions = 0
    /\ cache[1].expires_at = 3
    /\ cache[2].expires_at = now + 3


(* C30: a get that interleaves with a concurrent invalidate, eviction by   *)
(* set, or cleanup_expired removing the same key returns the stored value  *)
(* or absent and never raises, and a cleanup_expired that interleaves with *)
(* concurrent set calls never raises.                                      *)
C30_Original ==
    cret.op = "raise" => cret.ret \notin {"get", "cleanup_expired"}


(***************************************************************************)
(*                  Properties of the session window                       *)
(***************************************************************************)
(* C31: whenever the session tier rejects, the wait it reports is 3600     *)
(* minus the age in seconds of the oldest request stored in the window, in *)
(* whole minutes rounded down, and it lies between 0 and 60 minutes.       *)
C31_Wait ==
    [][lret'.tier = "session" =>
          \A s \in Sessions :
             CheckLimits(s, "p1", "none") =>
                LET left == WindowSecs - (now - session_requests'[s][1].t)
                IN  /\ lret'.wait * 60 <= left
                    /\ left < lret'.wait * 60 + 60
                    /\ lret'.wait \in 0..60]_vars

\* a check was rejected when the oldest stored request was one stride old:
\* 2600 seconds are left, reported as 43 minutes
C31_Witness ==
    /\ lret.op = "check_limits"
    /\ lret.tier = "session"
    /\ lret.wait = 43
    /\ now = Stride


\* the timestamps of a window do not decrease from front to back
Ordered(w) == \A i \in 1..(Len(w) - 1) : w[i].t <= w[i + 1].t

(* C32: in every reachable state the timestamps stored in one session's    *)
(* window are non-decreasing from front to back, and the front trim done   *)
(* by a check removes exactly the entries older than 3600 s and leaves no  *)
(* such entry behind.                                                      *)
C32_Monotone ==
    /\ [](\A s \in DOMAIN session_requests : Ordered(session_requests[s]))
    /\ [][lret'.op = "check_limits" =>
             \A s \in Sessions :
                CheckLimits(s, "p1", "none") =>
                   session_requests'[s] =
                       SelectSeq(Window(session_requests, s),
                                 LAMBDA e : now - e.t <= WindowSecs)]_vars

\* a check at four strides has removed the backlog of time 0 from the
\* front of the window of s1 and kept the request recorded at one stride
C32_Witness ==
    /\ lret.op = "check_limits"
    /\ now = 4 * Stride
    /\ "s1" \in DOMAIN session_costs
    /\ session_costs["s1"] > 2 * Len(Backlog)
    /\ Len(Window(session_requests, "s1")) \in 1..2
    /\ session_requests["s1"][1].t = Stride


\* the costs of the requests stored in a window
RECURSIVE SumCosts(_)
SumCosts(w) == IF w = <<>> THEN 0 ELSE w[1].cost + SumCosts(Tail(w))

\* the cleanup pass of a check at this time removes session s
Removed(s) ==
    /\ PassDue
    /\ Window(session_requests, s) # <<>>
    /\ session_requests[s][Len(session_requests[s])].t < now - WindowSecs

(* C33: get_session_stats(session).total_cost is the sum of the costs of   *)
(* all record_request calls for the session since it was created or last   *)
(* removed by cleanup, including requests already trimmed from the window  *)
(* or dropped by the 100-entry cap, and request_count is the number of     *)
(* entries currently stored.  Step by step: record_request adds its cost   *)
(* to the total of its session and to no other, a check resets the total   *)
(* of the sessions its cleanup pass removes and keeps every other total.   *)
C33_TotalCost ==
    /\ [](\A s \in Sessions :
             /\ GetSessionStats(s).request_count =
                    Len(Window(session_requests, s))
             /\ s \notin DOMAIN session_requests =>
                    GetSessionStats(s).total_cost = 0)
    /\ [][/\ lret'.op = "record_request" =>
                \A s \in Sessions, cost \in RecordCosts :
                   RecordRequest(s, cost) =>
                      \A x \in Sessions :
                         GetSessionStats(x)'.total_cost =
                            GetSessionStats(x).total_cost
                               + (IF x = s THEN cost ELSE 0)
          /\ lret'.op = "check_limits" =>
                \A s \in Sessions :
                   CheckLimits(s, "p1", "none") =>
                      \A x \in Sessions :
                         GetSessionStats(x)'.total_cost =
                            IF Removed(x) THEN 0
                            ELSE GetSessionStats(x).total_cost]_vars

\* two requests of cost 3 were recorded on top of the backlog: the deque
\* holds 100 entries, one request of the backlog was dropped, and the total
\* still counts it
C33_Witness ==
    /\ lret.op = "record_request"
    /\ GetSessionStats("s1").request_count = DequeMaxLen
    /\ GetSessionStats("s1").total_cost = 2 * Len(Backlog) + 3 + 3
    /\ SumCosts(Window(session_requests, "s1")) = 2 * (Len(Backlog) - 1) + 3 + 3


C37_RejectedInert ==
    [][(lret'.op = "check_limits" /\ ~lret'.allowed /\ ~lret'.raised) =>
          \A h \in Handlers, q \in Queries, m \in {"ok", "fail_both"} :
             ChatBegin(h, "s1", "p1", q, m) =>
                /\ handlers'[h] = HandlerIdle("429")
                /\ UNCHANGED <<cache, stats, touched, cret, ledger, served>>
                /\ \A x \in DOMAIN session_costs' :
                      x \in DOMAIN session_costs
                         /\ session_costs'[x] = session_costs[x]
                /\ session_requests'["s1"] =
                       SelectSeq(Window(session_requests, "s1"),
                                 LAMBDA e : now - e.t <= WindowSecs)
                /\ Cardinality(Young(session_requests'["s1"], now)) =
                       Cardinality(Young(Window(session_requests, "s1"), now))
      ]_vars

\* a request was rejected by the daily tier after one request was served,
\* stored in the cache, recorded and tracked
C37_Witness ==
    /\ \E h \in Handlers : handlers[h].response = "429"
    /\ lret.op = "check_limits"
    /\ lret.tier = "daily"
    /\ Len(cache) = 1
    /\ Len(ledger) = 1
    /\ Len(Window(session_requests, "s1")) = 1


C39_Original ==
    /\ \A s \in DOMAIN session_requests :
          Len(session_requests[s]) <= DequeMaxLen
    /\ (lret.op = "check_limits" /\ recorded >= session_limit) =>
          ~lret.allowed /\ lret.tier = "session"


(* C40: if the ledger store never fails and every request goes through    *)
(* the chat endpoint (check_limits, then the work, then track_usage), a    *)
(* portfolio's request_count for a day never exceeds daily_limit, also     *)
(* when several handlers for that portfolio interleave.                    *)
C40_Original ==
    \A i \in 1..Len(ledger) : ledger[i].request_count <= daily_limit

=============================================================================
